---- MODULE Spec2Model ----
(***************************************************************************)
(* Model of the two git-repository vectorizers of codetriever:             *)
(*   GitVectorizer      (docs/initial-claude-chat/                         *)
(*                       git-vector-chunking-system.py), the server-based  *)
(*                       variant on ChromaDB, one collection per           *)
(*                       repository+branch;                                *)
(*   LanceGitVectorizer (docs/initial-claude-chat/                         *)
(*                       lancedb-git-vectorizer.py), the embedded variant  *)
(*                       on LanceDB, one table "code_chunks".              *)
(*                                                                         *)
(* Strings are TLA+ strings built with \o as the f-strings of the source   *)
(* build them.  A parse tree is the pre-order sequence of its nodes, each  *)
(* with the index of its parent.  Only the node types the walkers tell     *)
(* apart are kept: definitions, import statements, expression statements  *)
(* that are a string, and "block" for every other node type.               *)
(*                                                                         *)
(* The last part models scripts/test_indexing.py, the driver that sets a   *)
(* tenant up, submits an index request, polls the job and searches.        *)
(***************************************************************************)
EXTENDS Integers, Sequences, FiniteSets, TLC

VARIABLES
    variant,      \* "server" (GitVectorizer) or "embedded" (LanceGitVectorizer)
    now,          \* the clock datetime.now() reads
    \* ---- one file handed to the chunk extractors ----
    src,          \* the file: language, decodable, tree, lines, repo, branch, path
    phase,        \* "input" | "once" | "twice": extractions made of src
    run1,         \* chunks of the first extraction of src
    run2,         \* chunks of the second extraction of src
    \* ---- the repository and the vector store ----
    repo,         \* branch -> [commit, tree]: each branch's tip and working tree
    collections,  \* server: collection name -> [exists, records]
    table,        \* embedded: the table "code_chunks", [exists, rows]
    onDuplicate,  \* server: what collection.add does with an id already stored
    \* ---- the vectorize_repository call in progress ----
    pc,           \* "idle" | "loop" | "inserting" | "embedding" | "storing"
    todo,         \* the branches still to process
    results,      \* branch -> chunk count (NoEntry while not set)
    ins,          \* server: the _insert_chunks call in progress
    all_chunks,   \* embedded: the chunks of the branches processed so far
    all_embeddings, \* embedded: the vectors computed so far
    outcome,      \* how the last call ended: "none" | "returned" | "raised" | "cancelled"
    \* ---- what the claims need to remember ----
    started,      \* branch -> the stored records when the call started
    aborted,      \* the insert that failed after some batches, if any
    indexed,      \* branch -> the last commit _process_branch finished inserting
    requested,    \* the branches the call was given
    failed,       \* the branches whose checkout or processing raised in the call
    embed_calls,  \* embedded: the calls of _generate_embeddings made by the call
    \* ---- search_similar_code and get_branch_diff_vectors ----
    request,      \* the arguments of the search_similar_code call
    found,        \* what the call returned
    prefilter,    \* embedded: whether LanceDB applies where() before the top-k cut
    query_errors, \* the collections (or the table) whose query raised in the call
    diff,         \* what the last get_branch_diff_vectors call returned
    deletion,     \* embedded: the last delete_repo_branch call and how it ended
    \* ---- the naming functions applied to one input ----
    subject,      \* a path, or two repository+branch pairs
    derived,      \* what _should_ignore_file or the collection key made of subject
    \* ---- scripts/test_indexing.py ----
    dpc,          \* where main() is: "start" | "tenant" | "index" | "poll" | "search" | "done"
    setup,        \* what the run finds: the number of files, the tenant id
    ensured,      \* what ensure_tenant_exists returned: "not called" | "true" | "false"
    db_commands,  \* the `just db-query` commands issued so far
    sent,         \* the HTTP requests sent so far: "index", "poll", "search"
    job_status,   \* the job status the last poll read ("none" before the first)
    elapsed,      \* seconds poll_job_until_complete has counted
    exit_code     \* NoEntry while running, then the exit status of main()

xvars == <<src, phase, run1, run2>>

\* The naming functions' variables.
nvars == <<subject, derived>>

\* The test driver's variables.
tvars == <<dpc, setup, ensured, db_commands, sent, job_status, elapsed, exit_code>>

\* What the extractions, the indexing runs and the searches leave alone.
ovars == <<nvars, tvars, deletion>>

svars == <<repo, collections, table, onDuplicate, pc, todo, results, ins,
           all_chunks, all_embeddings, outcome, started, aborted, indexed>>

hvars == <<requested, failed, embed_calls>>

qvars == <<request, found, prefilter, query_errors>>

vars == <<variant, now, xvars, svars, hvars, qvars, diff, ovars>>

---------------------------------------------------------------------------
(* Bounds of the model.                                                    *)

\* Nodes of a parse tree, the root included.
MaxNodes == 4
\* Lines of a file chunked by the line-window fallback.
MaxLines == 5
\* Readings of the clock.
MaxClock == 2

\* Lines per window of GitVectorizer._chunk_text_fallback (chunk_size = 100
\* at git-vector-chunking-system.py:330), scaled down to keep files small.
chunk_size_server == 3
\* Lines per window of LanceGitVectorizer._chunk_text_fallback
\* (chunk_size = 50 at lancedb-git-vectorizer.py:248), scaled down.
chunk_size_embedded == 2

Variants == {"server", "embedded"}

---------------------------------------------------------------------------
(* Sequence helpers.                                                       *)

\* '\n'.join(strs)
RECURSIVE JoinLines(_)
JoinLines(strs) ==
    IF strs = <<>> THEN ""
    ELSE IF Len(strs) = 1 THEN strs[1]
    ELSE strs[1] \o "\n" \o JoinLines(Tail(strs))

Min(a, b) == IF a <= b THEN a ELSE b

\* The string a token sequence spells.
RECURSIVE Str(_)
Str(tokens) == IF tokens = <<>> THEN "" ELSE Head(tokens) \o Str(Tail(tokens))

\* The increasing sequence of the members of a finite set of integers.
RECURSIVE SortedSeq(_)
SortedSeq(S) ==
    IF S = {} THEN <<>>
    ELSE LET m == CHOOSE x \in S : \A y \in S : x <= y
         IN  <<m>> \o SortedSeq(S \ {m})

---------------------------------------------------------------------------
(* Parse trees.                                                            *)

DefTypes == {"function_definition", "class_definition"}

\* child_by_field_name('name') returned None.
NoName == "<no name node>"
Names == {"f", "g"}

RootNode == [type |-> "module", name |-> NoName, parent |-> 0]

\* What a node below the root can be.  "expression_statement" stands for
\* an expression statement whose first child is a string.
NodeShapes ==
    [type : DefTypes, name : Names \cup {NoName}]
    \cup [type : {"import_statement", "import_from_statement",
                  "future_import_statement", "expression_statement", "block"},
          name : {NoName}]

IsImportNode(n) ==
    n.type \in {"import_statement", "import_from_statement", "future_import_statement"}

\* first_stmt.type == 'expression_statement' and
\* first_stmt.children[0].type == 'string'
IsStringStatement(n) == n.type = "expression_statement"

\* The text of the string statements, delimiters apart.
StringLiteral == <<"'''", "Doc.", "'''">>

\* node.children, in source order.
Children(tree, i) == SortedSeq({j \in DOMAIN tree : tree[j].parent = i})

RECURSIVE AncestorsOrSelf(_, _)
AncestorsOrSelf(tree, i) ==
    IF i = 0 THEN {} ELSE {i} \cup AncestorsOrSelf(tree, tree[i].parent)

Depth(tree, i) == Cardinality(AncestorsOrSelf(tree, i)) - 1

\* The parent indices of the pre-order traversals of the trees of k nodes:
\* the root has parent 0, and every later node hangs on the path from the
\* node before it to the root.
RECURSIVE PathToRoot(_, _)
PathToRoot(parents, i) ==
    IF i = 0 THEN {} ELSE {i} \cup PathToRoot(parents, parents[i])

RECURSIVE ParentVectors(_)
ParentVectors(k) ==
    IF k = 1 THEN {<<0>>}
    ELSE UNION { { Append(p, q) : q \in PathToRoot(p, k - 1) } :
                 p \in ParentVectors(k - 1) }

MakeTree(parents, shapes) ==
    [i \in DOMAIN parents |->
        IF i = 1 THEN RootNode
        ELSE [type |-> shapes[i].type, name |-> shapes[i].name, parent |-> parents[i]]]

\* An import statement has no statement below it (its children in the
\* grammar are names), and neither has a string statement.
WellFormedTree(tree) ==
    \A i \in DOMAIN tree :
        i > 1 => /\ ~IsImportNode(tree[tree[i].parent])
                 /\ ~IsStringStatement(tree[tree[i].parent])

\* Source layout: every node below the root starts a line of its own,
\* indented by its depth; a node ends on the line of its last descendant.
start_point(tree, i) ==
    [row |-> IF i = 1 THEN 0 ELSE i - 2, column |-> IF i = 1 THEN 0 ELSE 4 * (Depth(tree, i) - 1)]

Descendants(tree, i) == {j \in DOMAIN tree : i \in AncestorsOrSelf(tree, j)}

end_point(tree, i) ==
    LET last == CHOOSE j \in Descendants(tree, i) : \A k \in Descendants(tree, i) : k <= j
    IN  [row |-> IF last = 1 THEN 0 ELSE last - 2, column |-> 80]

\* str(node.start_point)
PointStr(p) == "(" \o ToString(p.row) \o ", " \o ToString(p.column) \o ")"

NodeHead(n) ==
    CASE n.type = "function_definition" -> "def " \o (IF n.name = NoName THEN "" ELSE n.name) \o "():"
      [] n.type = "class_definition" -> "class " \o (IF n.name = NoName THEN "" ELSE n.name) \o ":"
      [] n.type = "import_statement" -> "import os"
      [] n.type = "import_from_statement" -> "from a import b"
      [] n.type = "future_import_statement" -> "from __future__ import c"
      [] n.type = "expression_statement" -> Str(StringLiteral)
      [] n.type = "module" -> ""
      [] OTHER -> "pass"

\* content[node.start_byte:node.end_byte]: the node's text with that of its
\* descendants.
RECURSIVE extract_node_content(_, _)
RECURSIVE ContentOfAll(_, _)
extract_node_content(tree, i) ==
    NodeHead(tree[i]) \o ContentOfAll(tree, Children(tree, i))
ContentOfAll(tree, kids) ==
    IF kids = <<>> THEN ""
    ELSE "\n" \o extract_node_content(tree, Head(kids)) \o ContentOfAll(tree, Tail(kids))

---------------------------------------------------------------------------
(* Chunk identity and the CodeChunk record.                                *)

\* hashlib.md5(s.encode()).hexdigest(), taken as free of collisions.
md5(s) == "md5<" \o s \o ">"

\* The id of a chunk created while the clock reads `now` (a slip that would
\* make ids depend on the run).
chunk_id_timestamped(repo_name, branch, file_path, position) ==
    md5(repo_name \o ":" \o branch \o ":" \o file_path \o ":" \o position
        \o ":" \o ToString(now))

\* md5(f"{repo_name}:{branch}:{file_path}:{position}")
chunk_id(repo_name, branch, file_path, position) ==
    md5(repo_name \o ":" \o branch \o ":" \o file_path \o ":" \o position)

\* The call arguments every extractor passes along.
ExtractArgs(repo_name, branch, file_path, commit_hash) ==
    [repo_name |-> repo_name, branch |-> branch, file_path |-> file_path,
     commit_hash |-> commit_hash]

\* Python's None: the default of docstring, and the value of a parameter
\* the caller left out.  The source tests parameters for truth
\* ("if language:"), so an empty string is no filter either.
None == "<None>"
Given(x) == x # None

\* CodeChunk(...): docstring is left at its default.
CodeChunk(a, position, content, start_line, end_line, chunk_type, language, symbols, dependencies) ==
    [id |-> chunk_id(a.repo_name, a.branch, a.file_path, position),
     content |-> content,
     file_path |-> a.file_path,
     start_line |-> start_line,
     end_line |-> end_line,
     chunk_type |-> chunk_type,
     language |-> language,
     repo_name |-> a.repo_name,
     branch |-> a.branch,
     commit_hash |-> a.commit_hash,
     created_at |-> now,
     symbols |-> symbols,
     dependencies |-> dependencies,
     docstring |-> None]

---------------------------------------------------------------------------
(* The Python extractors.                                                  *)

\* extract_node_content(name_node) if name_node else "anonymous"
symbol_name(n) == IF n.name # NoName THEN n.name ELSE "anonymous"

\* The qualified name without the enclosing definitions.
full_symbol_unqualified(parent_context, name) == name

\* f"{parent_context}.{symbol_name}" if parent_context else symbol_name
full_symbol(parent_context, name) ==
    IF parent_context # "" THEN parent_context \o "." \o name ELSE name

\* node.type.replace('_definition', '')
chunk_type_of(type) ==
    IF type = "function_definition" THEN "function"
    ELSE IF type = "class_definition" THEN "class"
    ELSE type

\* node.children of a definition, by type, as tree-sitter-python lays them
\* out: 'def' name parameters ':' block, and 'class' name ':' block.  A
\* definition without name node has no identifier among them.
GrammarChildren(n) ==
    LET name == IF n.name = NoName THEN <<>> ELSE <<"identifier">>
    IN  CASE n.type = "function_definition" ->
                <<"def">> \o name \o <<"parameters", ":", "block">>
          [] n.type = "class_definition" -> <<"class">> \o name \o <<":", "block">>
          [] OTHER -> <<>>

\* s.strip('"""\'\'\'') (followed by .strip() in LanceGitVectorizer)
RECURSIVE strip_quotes(_)
strip_quotes(tokens) ==
    IF tokens = <<>> THEN <<>>
    ELSE IF Head(tokens) \in {"'''", "\"\"\""} THEN strip_quotes(Tail(tokens))
    ELSE IF tokens[Len(tokens)] \in {"'''", "\"\"\""}
         THEN strip_quotes(SubSeq(tokens, 1, Len(tokens) - 1))
    ELSE tokens

\* The docstring lookup of walk_tree and get_docstring of
\* LanceGitVectorizer: node.children[2] must be the block, and the
\* statement read is node.children[2].children[1].  The statements of the
\* block are the node's children in the model.
get_docstring(tree, i) ==
    LET children == GrammarChildren(tree[i])
        body == Children(tree, i)
    IN  IF Len(children) > 2 /\ children[3] = "block"
        THEN IF Len(body) > 1 /\ IsStringStatement(tree[body[2]])
             THEN Str(strip_quotes(StringLiteral))
             ELSE None
        ELSE None

\* The node types find_imports collects.
ImportTypes(v) ==
    IF v = "server"
    THEN {"import_statement", "import_from_statement", "future_import_statement"}
    ELSE {"import_statement", "import_from_statement"}

RECURSIVE find_imports(_, _, _)
RECURSIVE find_imports_children(_, _, _)
find_imports(v, tree, i) ==
    (IF tree[i].type \in ImportTypes(v) THEN <<extract_node_content(tree, i)>> ELSE <<>>)
    \o find_imports_children(v, tree, Children(tree, i))
find_imports_children(v, tree, kids) ==
    IF kids = <<>> THEN <<>>
    ELSE find_imports(v, tree, Head(kids)) \o find_imports_children(v, tree, Tail(kids))

extract_imports(v, tree) == find_imports(v, tree, 1)

\* The dependencies of a structural chunk: [] in GitVectorizer, the file's
\* import list in LanceGitVectorizer.
structural_dependencies(v, tree) ==
    IF v = "server" THEN <<>> ELSE extract_imports(v, tree)

\* walk_tree of GitVectorizer._extract_python_chunks and walk_node of
\* LanceGitVectorizer._chunk_python_file: the chunks appended, in order.
RECURSIVE walk_tree(_, _, _, _, _)
RECURSIVE walk_tree_children(_, _, _, _, _)
walk_tree(v, tree, i, parent_context, a) ==
    IF tree[i].type \in DefTypes
    THEN LET new_context == full_symbol(parent_context, symbol_name(tree[i]))
             chunk == [CodeChunk(a, PointStr(start_point(tree, i)),
                                 extract_node_content(tree, i),
                                 start_point(tree, i).row + 1,
                                 end_point(tree, i).row + 1,
                                 chunk_type_of(tree[i].type), "python",
                                 <<full_symbol(parent_context, symbol_name(tree[i]))>>,
                                 structural_dependencies(v, tree))
                       EXCEPT !.docstring = get_docstring(tree, i)]
         IN  <<chunk>> \o walk_tree_children(v, tree, Children(tree, i), new_context, a)
    ELSE walk_tree_children(v, tree, Children(tree, i), parent_context, a)
walk_tree_children(v, tree, kids, parent_context, a) ==
    IF kids = <<>> THEN <<>>
    ELSE walk_tree(v, tree, Head(kids), parent_context, a)
         \o walk_tree_children(v, tree, Tail(kids), parent_context, a)

\* The imports chunk, if the file has imports.
imports_chunk(v, tree, a) ==
    LET imports == extract_imports(v, tree)
    IN  IF imports # <<>>
        THEN <<CodeChunk(a, "imports", JoinLines(imports), 1,
                         IF v = "server" THEN 10 ELSE Len(imports),
                         "imports", "python", <<>>, imports)>>
        ELSE <<>>

\* GitVectorizer._extract_python_chunks / LanceGitVectorizer._chunk_python_file
extract_python_chunks(v, tree, a) ==
    walk_tree(v, tree, 1, "", a) \o imports_chunk(v, tree, a)

---------------------------------------------------------------------------
(* The line-window fallback.                                               *)

chunk_size(v) == IF v = "server" THEN chunk_size_server ELSE chunk_size_embedded

\* line.strip() == ""
IsBlankLine(line) == line \in {"", "  "}

\* not chunk_content.strip()
IsBlankWindow(chunk_lines) == \A k \in DOMAIN chunk_lines : IsBlankLine(chunk_lines[k])

\* Whether the loop skips the window: only LanceGitVectorizer does.
SkipWindow(v, chunk_lines) == v = "embedded" /\ IsBlankWindow(chunk_lines)

\* range(0, len(lines), chunk_size)
WindowStarts(v, n) == SortedSeq({i \in 0..(n - 1) : i % chunk_size(v) = 0})

RECURSIVE fallback_windows(_, _, _, _, _)
fallback_windows(v, lines, language, a, starts) ==
    IF starts = <<>> THEN <<>>
    ELSE LET i == Head(starts)
             chunk_lines == SubSeq(lines, i + 1, Min(i + chunk_size(v), Len(lines)))
         IN  (IF SkipWindow(v, chunk_lines) THEN <<>>
              ELSE <<CodeChunk(a, ToString(i), JoinLines(chunk_lines), i + 1,
                               Min(i + chunk_size(v), Len(lines)),
                               "text_block", language, <<>>, <<>>)>>)
             \o fallback_windows(v, lines, language, a, Tail(starts))

\* _chunk_text_fallback; lines = content.split('\n'), never empty.
chunk_text_fallback(v, lines, language, a) ==
    fallback_windows(v, lines, language, a, WindowStarts(v, Len(lines)))

---------------------------------------------------------------------------
(* _chunk_file: the dispatch on the language.                              *)

\* self.parsers of GitVectorizer.
ServerParsers == {"python", "javascript", "typescript", "rust"}

\* _extract_js_chunks and _extract_rust_chunks are stubs.
extract_js_chunks == <<>>
extract_rust_chunks == <<>>

chunk_file(v, file, a) ==
    IF ~file.decodable THEN <<>>
    ELSE IF v = "server"
    THEN IF file.language \notin ServerParsers
         THEN chunk_text_fallback(v, file.lines, file.language, a)
         ELSE IF file.language = "python" THEN extract_python_chunks(v, file.tree, a)
         ELSE IF file.language \in {"javascript", "typescript"} THEN extract_js_chunks
         ELSE extract_rust_chunks
    ELSE IF file.language = "python"
         THEN extract_python_chunks(v, file.tree, a)
         ELSE chunk_text_fallback(v, file.lines, file.language, a)

---------------------------------------------------------------------------
(* Names and paths.  A name is a sequence of tokens, each a run of         *)
(* characters or one of the separators "-", ".", "_", "/", so that         *)
(* str.replace and Path.suffix can be computed on it.                      *)

\* s.replace(old, new) for a one-character old.
Replace(tokens, old, new) ==
    [k \in DOMAIN tokens |-> IF tokens[k] = old THEN new ELSE tokens[k]]

\* f"{repo_name}_{branch}".replace("-", "_").replace(".", "_")
collection_name(repo_name, branch) ==
    Str(Replace(Replace(repo_name \o <<"_">> \o branch, "-", "_"), ".", "_"))

\* file_path.suffix
Suffix(path) ==
    IF Len(path) >= 3 /\ path[Len(path) - 1] = "." /\ path[Len(path) - 2] # "/"
    THEN "." \o path[Len(path)]
    ELSE ""

\* self.supported_extensions
supported_extensions(v) ==
    IF v = "server"
    THEN {".py", ".js", ".ts", ".jsx", ".tsx", ".rs", ".go", ".java",
          ".cpp", ".cc", ".cxx", ".c", ".h", ".hpp"}
    ELSE {".py", ".js", ".ts", ".jsx", ".tsx", ".rs", ".go"}

LanguageOf(suffix) ==
    CASE suffix = ".py" -> "python"
      [] suffix \in {".js", ".jsx"} -> "javascript"
      [] suffix \in {".ts", ".tsx"} -> "typescript"
      [] suffix = ".rs" -> "rust"
      [] suffix = ".go" -> "go"
      [] suffix = ".java" -> "java"
      [] suffix \in {".cpp", ".cc", ".cxx", ".hpp"} -> "cpp"
      [] OTHER -> "c"

\* ignore_patterns
ignore_patterns(v) ==
    {<<"node_modules">>, <<".", "git">>, <<"__pycache__">>, <<".", "pytest_cache">>,
     <<"target">>, <<"build">>, <<"dist">>, <<".", "venv">>, <<"venv">>,
     <<".", "DS_Store">>, <<"*", ".", "log">>}
    \cup (IF v = "server" THEN {<<"*", ".", "pyc">>} ELSE {<<".", "env">>})

\* pattern in path_str
Contains(path, pattern) ==
    \E k \in 0..(Len(path) - Len(pattern)) :
        \A j \in 1..Len(pattern) : path[k + j] = pattern[j]

\* _should_ignore_file
should_ignore_file(v, path) == \E pattern \in ignore_patterns(v) : Contains(path, pattern)

---------------------------------------------------------------------------
(* The repository.                                                         *)

\* Path(repo_path).name and str(repo.working_dir)
RepoName == <<"my", "-", "project">>
RepoRoot == <<"/", "work", "/">> \o RepoName

Branches == {<<"main">>, <<"dev">>}

\* Commits of the repository (their hashes are 1, 2, ...).
MaxCommits == 2

WorkFile(path, decodable, tree, lines) ==
    [path |-> path, decodable |-> decodable, tree |-> tree, lines |-> lines,
     raises |-> FALSE]

\* A file _chunk_file raises on for another reason than its encoding (it
\* cannot be read).
UnreadableFile(path) ==
    [path |-> path, decodable |-> TRUE, tree |-> <<RootNode>>, lines |-> <<"">>,
     raises |-> TRUE]

Module(nodes) == <<RootNode>> \o nodes
Node(type, name, parent) == [type |-> type, name |-> name, parent |-> parent]

\* The working trees a commit can hold: the files in the order rglob('*')
\* lists them.
WorkTrees ==
    << \* 1: a.py = def f
       <<WorkFile(<<"a", ".", "py">>, TRUE,
                  Module(<<Node("function_definition", "f", 1)>>), <<"">>)>>,
       \* 2: a.py = def f / class g: def f
       <<WorkFile(<<"a", ".", "py">>, TRUE,
                  Module(<<Node("function_definition", "f", 1),
                           Node("class_definition", "g", 1),
                           Node("function_definition", "f", 3)>>), <<"">>)>>,
       \* 3: a.py = import os / def f, and a Go file with a blank line
       <<WorkFile(<<"a", ".", "py">>, TRUE,
                  Module(<<Node("import_statement", NoName, 1),
                           Node("function_definition", "f", 1)>>), <<"">>),
         WorkFile(<<"lib", ".", "go">>, TRUE, <<RootNode>>, <<"x = 1", "", "x = 1">>)>>,
       \* 4: a generated file under build/, a text file and a binary file:
       \* nothing to chunk
       <<WorkFile(<<"build", "/", "gen", ".", "py">>, TRUE,
                  Module(<<Node("function_definition", "f", 1)>>), <<"">>),
         WorkFile(<<"README", ".", "md">>, TRUE, <<RootNode>>, <<"x = 1">>),
         WorkFile(<<"blob", ".", "py">>, FALSE, <<RootNode>>, <<"">>)>>,
       \* 5: a binary file and an unreadable file, each followed by a good file
       <<WorkFile(<<"blob", ".", "py">>, FALSE, <<RootNode>>, <<"">>),
         WorkFile(<<"c", ".", "py">>, TRUE,
                  Module(<<Node("function_definition", "g", 1)>>), <<"">>),
         UnreadableFile(<<"locked", ".", "go">>),
         WorkFile(<<"d", ".", "go">>, TRUE, <<RootNode>>, <<"x = 1">>)>> >>

\* The files of the walk of _process_branch: supported and not ignored.
EligibleFiles(v, files) ==
    SelectSeq(files, LAMBDA f :
        /\ Suffix(f.path) \in supported_extensions(v)
        /\ ~should_ignore_file(v, RepoRoot \o <<"/">> \o f.path))

\* _chunk_file(file_path, repo_name, branch, commit_hash, repo_root) in the
\* try of the walk: a file it raises on is reported and adds no chunk.
chunk_work_file(v, f, branch, commit_hash) ==
    IF f.raises THEN <<>>
    ELSE chunk_file(v,
                    [language |-> LanguageOf(Suffix(f.path)), decodable |-> f.decodable,
                     tree |-> f.tree, lines |-> f.lines],
                    ExtractArgs(Str(RepoName), Str(branch), Str(f.path), commit_hash))

\* A walk that ends at the first file that cannot be decoded or raises.
RECURSIVE walk_files_until_error(_, _, _, _)
walk_files_until_error(v, files, branch, commit_hash) ==
    IF files = <<>> \/ ~Head(files).decodable \/ Head(files).raises THEN <<>>
    ELSE chunk_work_file(v, Head(files), branch, commit_hash)
         \o walk_files_until_error(v, Tail(files), branch, commit_hash)

\* The chunks of the walk over the branch's working tree.
RECURSIVE walk_files(_, _, _, _)
walk_files(v, files, branch, commit_hash) ==
    IF files = <<>> THEN <<>>
    ELSE chunk_work_file(v, Head(files), branch, commit_hash)
         \o walk_files(v, Tail(files), branch, commit_hash)

branch_chunks(v, branch) ==
    walk_files(v, EligibleFiles(v, WorkTrees[repo[branch].tree]), branch,
               repo[branch].commit)

---------------------------------------------------------------------------
(* The vector stores.                                                      *)

\* Chunks per collection.add of _insert_chunks and per embedding call of
\* _store_chunks (batch_size = 100 at git-vector-chunking-system.py:379 and
\* lancedb-git-vectorizer.py:296), scaled down.
batch_size == 2

CollectionNames == {collection_name(RepoName, b) : b \in Branches}

NoCollection == [exists |-> FALSE, records |-> <<>>]
NoTable == [exists |-> FALSE, rows |-> <<>>]
NoEntry == -1
NoInsert == [branch |-> <<>>, name |-> "", commit |-> 0, chunks |-> <<>>, i |-> 0,
             before |-> NoCollection]
\* No get_branch_diff_vectors call has returned since the repository changed.
NoDiff == [called |-> FALSE]
\* No search_similar_code call yet, and no result.
NoRequest == [called |-> FALSE]
NotSearched == <<[pending |-> TRUE]>>

\* No search is made in the indexing runs.
SearchAtRest ==
    /\ request = NoRequest
    /\ found = NotSearched
    /\ prefilter = TRUE
    /\ query_errors = {}

\* No delete_repo_branch call since the last indexing run.
NoDeletion == [called |-> FALSE, repo_name |-> <<>>, branch |-> <<>>, raised |-> FALSE]
\* Nothing handed to the naming functions, and nothing made of it.
NoSubject == [kind |-> "none"]
NotDerived == [pending |-> TRUE]
\* scripts/test_indexing.py is not run.
NoSetup == [run |-> FALSE, files |-> 0, tenant_id |-> <<>>]


DriverAtRest ==
    /\ dpc = "start"
    /\ setup = NoSetup
    /\ ensured = "not called"
    /\ db_commands = <<>>
    /\ sent = <<>>
    /\ job_status = "none"
    /\ elapsed = 0
    /\ exit_code = NoEntry

\* Neither the naming functions nor the test driver nor delete_repo_branch
\* take part.
OthersAtRest ==
    /\ deletion = NoDeletion
    /\ subject = NoSubject
    /\ derived = NotDerived
    /\ DriverAtRest

NoAbort == [happened |-> FALSE, name |-> "", commit |-> 0, before |-> NoCollection]

\* _is_branch_current: the commit_hash of the record collection.get(limit=1)
\* returns, the first one stored.
is_branch_current(collection, commit_hash) ==
    IF collection.records # <<>>
    THEN collection.records[1].commit_hash = commit_hash
    ELSE FALSE

\* The embedding capability: one vector per text.
Embedding(text) == "vec<" \o text \o ">"

\* An embedding capability that answers in reverse order.
generate_embeddings_reversed(texts) ==
    [k \in DOMAIN texts |-> Embedding(texts[Len(texts) + 1 - k])]

\* _generate_embeddings(texts)
generate_embeddings(texts) == [k \in DOMAIN texts |-> Embedding(texts[k])]

\* The row _store_chunks builds of a chunk and its embedding.
chunk_dict(chunk, embedding) ==
    [id |-> chunk.id, content |-> chunk.content, file_path |-> chunk.file_path,
     start_line |-> chunk.start_line, end_line |-> chunk.end_line,
     chunk_type |-> chunk.chunk_type, language |-> chunk.language,
     repo_name |-> chunk.repo_name, branch |-> chunk.branch,
     commit_hash |-> chunk.commit_hash, created_at |-> chunk.created_at,
     symbols |-> chunk.symbols, dependencies |-> chunk.dependencies,
     docstring |-> IF chunk.docstring = None THEN "" ELSE chunk.docstring,
     vector |-> embedding]

\* zip(chunks, all_embeddings)
chunk_data(chunks, embeddings) ==
    [k \in 1..Min(Len(chunks), Len(embeddings)) |-> chunk_dict(chunks[k], embeddings[k])]

\* The stored records of a repository+branch.
StoredRecords(branch) ==
    IF variant = "server"
    THEN collections[collection_name(RepoName, branch)].records
    ELSE SelectSeq(table.rows, LAMBDA r :
            r.repo_name = Str(RepoName) /\ r.branch = Str(branch))

Snapshot(branch) ==
    [count |-> Len(StoredRecords(branch)),
     current |-> /\ StoredRecords(branch) # <<>>
                 /\ \A k \in DOMAIN StoredRecords(branch) :
                        StoredRecords(branch)[k].commit_hash = repo[branch].commit]

StoreAtRest ==
    /\ repo = [b \in Branches |-> [commit |-> 1, tree |-> 1]]
    /\ collections = [n \in CollectionNames |-> NoCollection]
    /\ table = NoTable
    /\ pc = "idle"
    /\ todo = <<>>
    /\ results = [b \in Branches |-> NoEntry]
    /\ ins = NoInsert
    /\ all_chunks = <<>>
    /\ all_embeddings = <<>>
    /\ outcome = "none"
    /\ started = [b \in Branches |-> [count |-> 0, current |-> FALSE]]
    /\ aborted = NoAbort
    /\ indexed = [b \in Branches |-> 0]
    /\ requested = <<>>
    /\ failed = {}
    /\ embed_calls = <<>>
    /\ diff = NoDiff

---------------------------------------------------------------------------
(* The extractors applied to one file, twice: specification SpecExtract.   *)

LineKinds == {"", "  ", "x = 1"}

\* content.split('\n') of the files of at most MaxLines lines.
LineSeqs == UNION {[1..n -> LineKinds] : n \in 1..MaxLines}

\* The languages of supported_extensions the dispatch tells apart.
TextLanguages == {"javascript", "rust", "go"}

ExtensionOf(language) ==
    CASE language = "python" -> ".py"
      [] language = "javascript" -> ".js"
      [] language = "rust" -> ".rs"
      [] OTHER -> ".go"

SourceFile(language, decodable, tree, lines) ==
    [language |-> language, decodable |-> decodable, tree |-> tree, lines |-> lines,
     repo_name |-> "my-project", branch |-> "main",
     file_path |-> "src/app" \o ExtensionOf(language)]

Commits == {1, 2}

ArgsOf(file, commit_hash) ==
    ExtractArgs(file.repo_name, file.branch, file.file_path, commit_hash)

InitExtract ==
    /\ variant \in Variants
    /\ now = 0
    /\ phase = "input"
    /\ run1 = <<>>
    /\ run2 = <<>>
    /\ onDuplicate = "ignore"
    /\ StoreAtRest
    /\ SearchAtRest
    /\ OthersAtRest
    /\ \/ \E k \in 1..MaxNodes : \E parents \in ParentVectors(k) :
            \E shapes \in [2..k -> NodeShapes] :
                /\ WellFormedTree(MakeTree(parents, shapes))
                /\ src = SourceFile("python", TRUE, MakeTree(parents, shapes), <<"">>)
       \/ \E language \in TextLanguages : \E lines \in LineSeqs :
            src = SourceFile(language, TRUE, <<RootNode>>, lines)
       \/ \E language \in TextLanguages \cup {"python"} :
            src = SourceFile(language, FALSE, <<RootNode>>, <<"">>)

\* _chunk_file on the file, at the first commit.
ExtractFirst ==
    /\ phase = "input"
    /\ now < MaxClock
    /\ run1' = chunk_file(variant, src, ArgsOf(src, 1))
    /\ now' = now + 1
    /\ phase' = "once"
    /\ UNCHANGED <<variant, ovars, src, run2, svars, hvars, qvars, diff>>

\* _chunk_file on the same file again, later, at the same or another commit.
ExtractAgain ==
    /\ phase = "once"
    /\ now < MaxClock
    /\ \E c \in Commits : run2' = chunk_file(variant, src, ArgsOf(src, c))
    /\ now' = now + 1
    /\ phase' = "twice"
    /\ UNCHANGED <<variant, ovars, src, run1, svars, hvars, qvars, diff>>

NextExtract == ExtractFirst \/ ExtractAgain

SpecExtract == InitExtract /\ [][NextExtract]_vars

---------------------------------------------------------------------------
(* vectorize_repository on the repository: specification Spec.             *)

\* The branch lists a call is given: some branches of the repository, each
\* once.
BranchLists ==
    {<<b>> : b \in Branches}
    \cup ({<<a, b>> : a, b \in Branches} \ {<<b, b>> : b \in Branches})

Init ==
    /\ variant \in Variants
    /\ onDuplicate \in (IF variant = "server" THEN {"ignore", "raise"} ELSE {"ignore"})
    /\ now = 0
    /\ src = [language |-> "python", decodable |-> TRUE, tree |-> <<RootNode>>,
              lines |-> <<"">>, repo_name |-> "my-project", branch |-> "main",
              file_path |-> "src/app.py"]
    /\ phase = "input"
    /\ run1 = <<>>
    /\ run2 = <<>>
    /\ StoreAtRest
    /\ SearchAtRest
    /\ OthersAtRest

\* A commit on a branch: a new hash and another working tree.
Commit(branch, tree) ==
    /\ pc = "idle"
    /\ tree # repo[branch].tree
    /\ LET newest == CHOOSE c \in {repo[b].commit : b \in Branches} :
                        \A b \in Branches : repo[b].commit <= c
       IN  /\ newest < MaxCommits
           /\ repo' = [repo EXCEPT ![branch] = [commit |-> newest + 1, tree |-> tree]]
    /\ diff' = NoDiff
    /\ deletion' = NoDeletion
    /\ UNCHANGED hvars
    /\ UNCHANGED <<variant, nvars, tvars, now, xvars, qvars, collections, table, onDuplicate, pc, todo,
                   results, ins, all_chunks, all_embeddings, outcome, started,
                   aborted, indexed>>

\* vectorize_repository(repo_path, branches) is called.
VectorizeRepository(branches) ==
    /\ pc = "idle"
    /\ now < MaxClock
    /\ now' = now + 1
    /\ pc' = "loop"
    /\ todo' = branches
    /\ results' = [b \in Branches |-> NoEntry]
    /\ all_chunks' = <<>>
    /\ all_embeddings' = <<>>
    /\ outcome' = "none"
    /\ started' = [b \in Branches |-> Snapshot(b)]
    /\ aborted' = NoAbort
    /\ indexed' = [b \in Branches |-> 0]
    /\ requested' = branches
    /\ failed' = {}
    /\ embed_calls' = <<>>
    /\ diff' = NoDiff
    /\ deletion' = NoDeletion
    /\ UNCHANGED <<variant, nvars, tvars, xvars, qvars, repo, collections, table,
                   onDuplicate, ins>>

\* A failed checkout that leaves no entry in results.
CheckoutFailsUnrecorded ==
    /\ pc = "loop"
    /\ todo # <<>>
    /\ todo' = Tail(todo)
    /\ failed' = failed \cup {Head(todo)}
    /\ UNCHANGED <<variant, ovars, now, xvars, qvars, repo, collections, table, onDuplicate,
                   pc, results, ins, all_chunks, all_embeddings, outcome, started,
                   aborted, indexed, requested, embed_calls, diff>>

\* repo.git.checkout(branch) raises: 0 chunks for the branch, on to the next.
CheckoutFails ==
    /\ pc = "loop"
    /\ todo # <<>>
    /\ results' = [results EXCEPT ![Head(todo)] = 0]
    /\ todo' = Tail(todo)
    /\ failed' = failed \cup {Head(todo)}
    /\ UNCHANGED <<requested, embed_calls, diff>>
    /\ UNCHANGED <<variant, ovars, now, xvars, qvars, repo, collections, table, onDuplicate, pc, ins,
                   all_chunks, all_embeddings, outcome, started, aborted, indexed>>

\* A create_table that replaces the table it finds.
create_table_overwrite(tbl, data) ==
    [raised |-> FALSE, table |-> [exists |-> TRUE, rows |-> data]]

\* db.create_table(table_name, df): raises when the table exists.
create_table(tbl, data) ==
    IF tbl.exists
    THEN [raised |-> TRUE, table |-> tbl]
    ELSE [raised |-> FALSE, table |-> [exists |-> TRUE, rows |-> data]]

\* client.create_collection(name=collection_name, ...): raises when the
\* collection exists.
create_collection(collection) ==
    IF collection.exists
    THEN [raised |-> TRUE, collection |-> collection]
    ELSE [raised |-> FALSE, collection |-> [exists |-> TRUE, records |-> <<>>]]

\* GitVectorizer._process_branch: get_collection raises on a collection
\* that exists (the store cannot be read); the bare except calls
\* create_collection, which raises in turn, and vectorize_repository
\* records 0 chunks for the branch.
GetCollectionFails ==
    /\ pc = "loop"
    /\ todo # <<>>
    /\ variant = "server"
    /\ LET branch == Head(todo)
           name == collection_name(RepoName, branch)
           created == create_collection(collections[name])
       IN  /\ collections[name].exists
           /\ created.raised
           /\ collections' = [collections EXCEPT ![name] = created.collection]
           /\ results' = [results EXCEPT ![branch] = 0]
           /\ failed' = failed \cup {branch}
    /\ todo' = Tail(todo)
    /\ UNCHANGED <<requested, embed_calls, diff>>
    /\ UNCHANGED <<variant, ovars, now, xvars, qvars, repo, table, onDuplicate, pc, ins,
                   all_chunks, all_embeddings, outcome, started, aborted, indexed>>

\* GitVectorizer: checkout and _process_branch up to the call of
\* _insert_chunks.
ProcessBranchServer ==
    /\ pc = "loop"
    /\ todo # <<>>
    /\ variant = "server"
    /\ LET branch == Head(todo)
           commit_hash == repo[branch].commit
           name == collection_name(RepoName, branch)
           collection == collections[name]
           chunks == branch_chunks("server", branch)
       IN  IF collection.exists /\ is_branch_current(collection, commit_hash)
           THEN \* up to date: return len(collection.get()['ids'])
                /\ results' = [results EXCEPT ![branch] = Len(collection.records)]
                /\ todo' = Tail(todo)
                /\ UNCHANGED <<collections, pc, ins>>
           ELSE /\ collections' =
                      [collections EXCEPT
                          ![name] = IF @.exists THEN @ ELSE create_collection(@).collection]
                /\ IF chunks = <<>>
                   THEN /\ results' = [results EXCEPT ![branch] = 0]
                        /\ todo' = Tail(todo)
                        /\ UNCHANGED <<pc, ins>>
                   ELSE /\ pc' = "inserting"
                        /\ ins' = [branch |-> branch, name |-> name, commit |-> commit_hash,
                                   chunks |-> chunks, i |-> 0, before |-> collection]
                        /\ UNCHANGED <<results, todo>>
    /\ aborted' = NoAbort
    /\ UNCHANGED <<hvars, diff>>
    /\ UNCHANGED <<variant, ovars, now, xvars, qvars, repo, table, onDuplicate, all_chunks,
                   all_embeddings, outcome, started, indexed>>

\* What the failure of a batch leaves behind for the claims to read.
AbortOf(insert) ==
    IF insert.i > 0
    THEN [happened |-> TRUE, name |-> insert.name, commit |-> insert.commit,
          before |-> insert.before]
    ELSE NoAbort

StoredIds(collection) == {collection.records[k].id : k \in DOMAIN collection.records}

\* GitVectorizer._insert_chunks: one collection.add of the loop.  An id
\* already stored is left as it is or makes the call raise, by the ChromaDB
\* version; the exception ends _process_branch and is caught by
\* vectorize_repository.
InsertBatch ==
    /\ pc = "inserting"
    /\ LET batch == SubSeq(ins.chunks, ins.i + 1, Min(ins.i + batch_size, Len(ins.chunks)))
           stored == StoredIds(collections[ins.name])
           fresh == SelectSeq(batch, LAMBDA c : c.id \notin stored)
       IN  IF fresh # batch /\ onDuplicate = "raise"
           THEN /\ results' = [results EXCEPT ![ins.branch] = 0]
                /\ todo' = Tail(todo)
                /\ pc' = "loop"
                /\ ins' = NoInsert
                /\ aborted' = AbortOf(ins)
                /\ failed' = failed \cup {ins.branch}
                /\ UNCHANGED <<collections, indexed>>
           ELSE /\ collections' =
                      [collections EXCEPT ![ins.name].records = @ \o fresh]
                /\ IF ins.i + batch_size >= Len(ins.chunks)
                   THEN /\ results' = [results EXCEPT ![ins.branch] = Len(ins.chunks)]
                        /\ todo' = Tail(todo)
                        /\ pc' = "loop"
                        /\ ins' = NoInsert
                        /\ indexed' = [indexed EXCEPT ![ins.branch] = ins.commit]
                   ELSE /\ ins' = [ins EXCEPT !.i = @ + batch_size]
                        /\ UNCHANGED <<results, todo, pc, indexed>>
                /\ UNCHANGED <<aborted, failed>>
    /\ UNCHANGED <<requested, embed_calls, diff>>
    /\ UNCHANGED <<variant, ovars, now, xvars, qvars, repo, table, onDuplicate, all_chunks,
                   all_embeddings, outcome, started>>

\* collection.add raises (a store or embedding error): caught by
\* vectorize_repository, 0 chunks for the branch.
InsertFails ==
    /\ pc = "inserting"
    /\ results' = [results EXCEPT ![ins.branch] = 0]
    /\ todo' = Tail(todo)
    /\ pc' = "loop"
    /\ ins' = NoInsert
    /\ aborted' = AbortOf(ins)
    /\ failed' = failed \cup {ins.branch}
    /\ UNCHANGED <<requested, embed_calls, diff>>
    /\ UNCHANGED <<variant, ovars, now, xvars, qvars, repo, collections, table, onDuplicate,
                   all_chunks, all_embeddings, outcome, started, indexed>>

\* The call is cancelled while it awaits _insert_chunks: CancelledError is
\* not an Exception, so it leaves vectorize_repository.
Cancel ==
    /\ pc = "inserting"
    /\ pc' = "idle"
    /\ todo' = <<>>
    /\ ins' = NoInsert
    /\ outcome' = "cancelled"
    /\ aborted' = AbortOf(ins)
    /\ UNCHANGED <<hvars, diff>>
    /\ UNCHANGED <<variant, ovars, now, xvars, qvars, repo, collections, table, onDuplicate, results,
                   all_chunks, all_embeddings, started, indexed>>

\* LanceGitVectorizer: checkout and _process_branch.
ProcessBranchEmbedded ==
    /\ pc = "loop"
    /\ todo # <<>>
    /\ variant = "embedded"
    /\ LET branch == Head(todo)
           chunks == branch_chunks("embedded", branch)
       IN  /\ all_chunks' = all_chunks \o chunks
           /\ results' = [results EXCEPT ![branch] = Len(chunks)]
    /\ todo' = Tail(todo)
    /\ UNCHANGED <<hvars, diff>>
    /\ UNCHANGED <<variant, ovars, now, xvars, qvars, repo, collections, table, onDuplicate, pc, ins,
                   all_embeddings, outcome, started, aborted, indexed>>

\* The loop over the branches is over: GitVectorizer returns the results;
\* LanceGitVectorizer calls _store_chunks if there are chunks.
LoopDone ==
    /\ pc = "loop"
    /\ todo = <<>>
    /\ IF variant = "embedded" /\ all_chunks # <<>>
       THEN pc' = "embedding" /\ UNCHANGED outcome
       ELSE pc' = "idle" /\ outcome' = "returned"
    /\ UNCHANGED <<hvars, diff>>
    /\ UNCHANGED <<variant, ovars, now, xvars, qvars, repo, collections, table, onDuplicate, todo,
                   results, ins, all_chunks, all_embeddings, started, aborted, indexed>>

\* A _store_chunks that writes the rows of each batch as soon as its
\* embeddings are there.
EmbedBatchWriting ==
    /\ pc = "embedding"
    /\ LET i == Len(all_embeddings)
           batch == SubSeq(all_chunks, i + 1, Min(i + batch_size, Len(all_chunks)))
           texts == [k \in DOMAIN batch |-> batch[k].content]
       IN  /\ all_embeddings' = all_embeddings \o generate_embeddings(texts)
           /\ embed_calls' = Append(embed_calls, [texts |-> texts, ok |-> TRUE])
           /\ table' = [exists |-> TRUE,
                        rows |-> table.rows \o chunk_data(batch, generate_embeddings(texts))]
           /\ pc' = IF i + batch_size >= Len(all_chunks) THEN "idle" ELSE "embedding"
           /\ outcome' = IF i + batch_size >= Len(all_chunks) THEN "returned" ELSE outcome
    /\ UNCHANGED <<requested, failed, diff>>
    /\ UNCHANGED <<variant, ovars, now, xvars, qvars, repo, collections, onDuplicate, todo,
                   results, ins, all_chunks, started, aborted, indexed>>

\* LanceGitVectorizer._store_chunks: the embeddings of one batch.
EmbedBatch ==
    /\ pc = "embedding"
    /\ LET i == Len(all_embeddings)
           batch == SubSeq(all_chunks, i + 1, Min(i + batch_size, Len(all_chunks)))
           texts == [k \in DOMAIN batch |-> batch[k].content]
       IN  /\ all_embeddings' = all_embeddings \o generate_embeddings(texts)
           /\ embed_calls' = Append(embed_calls, [texts |-> texts, ok |-> TRUE])
           /\ pc' = IF i + batch_size >= Len(all_chunks) THEN "storing" ELSE "embedding"
    /\ UNCHANGED <<requested, failed, diff>>
    /\ UNCHANGED <<variant, ovars, now, xvars, qvars, repo, collections, table, onDuplicate, todo,
                   results, ins, all_chunks, outcome, started, aborted, indexed>>

\* The embedding provider fails: the exception leaves _store_chunks and
\* vectorize_repository.
EmbedFails ==
    /\ pc = "embedding"
    /\ pc' = "idle"
    /\ outcome' = "raised"
    /\ LET i == Len(all_embeddings)
           batch == SubSeq(all_chunks, i + 1, Min(i + batch_size, Len(all_chunks)))
       IN  embed_calls' = Append(embed_calls,
                                 [texts |-> [k \in DOMAIN batch |-> batch[k].content],
                                  ok |-> FALSE])
    /\ UNCHANGED <<requested, failed, diff>>
    /\ UNCHANGED <<variant, ovars, now, xvars, qvars, repo, collections, table, onDuplicate, todo,
                   results, ins, all_chunks, all_embeddings, started, aborted, indexed>>

\* LanceGitVectorizer._store_chunks: table.add on the open table, or
\* create_table when open_table raises.
WriteTable ==
    /\ pc = "storing"
    /\ table' = IF table.exists
                THEN [table EXCEPT !.rows = @ \o chunk_data(all_chunks, all_embeddings)]
                ELSE create_table(table, chunk_data(all_chunks, all_embeddings)).table
    /\ pc' = "idle"
    /\ outcome' = "returned"
    /\ UNCHANGED <<hvars, diff>>
    /\ UNCHANGED <<variant, ovars, now, xvars, qvars, repo, collections, onDuplicate, todo, results,
                   ins, all_chunks, all_embeddings, started, aborted, indexed>>

\* The write fails: open_table or table.add raises on the table that
\* exists and the except branch calls create_table on it, or create_table
\* fails on a new table.
WriteTableFails ==
    /\ pc = "storing"
    /\ pc' = "idle"
    /\ IF table.exists
       THEN LET created == create_table(table, chunk_data(all_chunks, all_embeddings))
            IN  /\ table' = created.table
                /\ outcome' = IF created.raised THEN "raised" ELSE "returned"
       ELSE /\ table' = table
            /\ outcome' = "raised"
    /\ UNCHANGED <<hvars, diff>>
    /\ UNCHANGED <<variant, ovars, now, xvars, qvars, repo, collections, onDuplicate, todo,
                   results, ins, all_chunks, all_embeddings, started, aborted, indexed>>

\* The filter expressions table.delete is given, as LanceDB reads them: SQL
\* in which a string literal runs from a quote to the next quote, AND binds
\* tighter than OR, and an operand is a column or a literal.  An expression
\* is a sequence of tokens; SyntaxError stands for the exception the parser
\* raises.
SyntaxError == [ok |-> FALSE, value |-> FALSE, next |-> 0]

sql_operand(condition, k, row) ==
    IF k > Len(condition) THEN SyntaxError
    ELSE IF condition[k] = "'"
    THEN LET closing == {j \in (k + 1)..Len(condition) : condition[j] = "'"}
         IN  IF closing = {} THEN SyntaxError
             ELSE LET j == CHOOSE x \in closing : \A y \in closing : x <= y
                  IN  [ok |-> TRUE, value |-> Str(SubSeq(condition, k + 1, j - 1)),
                       next |-> j + 1]
    ELSE IF condition[k] \in {"repo_name", "branch"}
    THEN [ok |-> TRUE, value |-> row[condition[k]], next |-> k + 1]
    ELSE SyntaxError

sql_comparison(condition, k, row) ==
    LET left == sql_operand(condition, k, row)
    IN  IF ~left.ok \/ left.next > Len(condition) \/ condition[left.next] # " = "
        THEN SyntaxError
        ELSE LET right == sql_operand(condition, left.next + 1, row)
             IN  IF ~right.ok THEN SyntaxError
                 ELSE [ok |-> TRUE, value |-> (left.value = right.value),
                       next |-> right.next]

RECURSIVE sql_conjunction(_, _, _)
sql_conjunction(condition, k, row) ==
    LET first == sql_comparison(condition, k, row)
    IN  IF first.ok /\ first.next <= Len(condition) /\ condition[first.next] = " AND "
        THEN LET rest == sql_conjunction(condition, first.next + 1, row)
             IN  IF ~rest.ok THEN SyntaxError
                 ELSE [ok |-> TRUE, value |-> (first.value /\ rest.value),
                       next |-> rest.next]
        ELSE first

RECURSIVE sql_disjunction(_, _, _)
sql_disjunction(condition, k, row) ==
    LET first == sql_conjunction(condition, k, row)
    IN  IF first.ok /\ first.next <= Len(condition) /\ condition[first.next] = " OR "
        THEN LET rest == sql_disjunction(condition, first.next + 1, row)
             IN  IF ~rest.ok THEN SyntaxError
                 ELSE [ok |-> TRUE, value |-> (first.value \/ rest.value),
                       next |-> rest.next]
        ELSE first

\* Whether the expression parses, and whether the row satisfies it.
sql_where(condition, row) ==
    LET parsed == sql_disjunction(condition, 1, row)
    IN  IF parsed.ok /\ parsed.next = Len(condition) + 1 THEN parsed ELSE SyntaxError

\* f"repo_name = '{repo_name}' AND branch = '{branch}'" if branch, else
\* f"repo_name = '{repo_name}'"
delete_condition(repo_name, branch) ==
    IF branch # <<>>
    THEN <<"repo_name", " = ", "'">> \o repo_name
         \o <<"'", " AND ", "branch", " = ", "'">> \o branch \o <<"'">>
    ELSE <<"repo_name", " = ", "'">> \o repo_name \o <<"'">>

\* The repository names and branches delete_repo_branch is called with: a
\* stored repository, and names that hold a quote.
DeleteRepoNames ==
    {RepoName, <<"o", "'", "brien">>, <<"lib", "'", " OR ", "'", "'", " = ", "'">>}

\* <<>> is the branch left out (None) or empty: `if branch:` is false.
DeleteBranches == {<<>>, <<"main">>}

\* LanceGitVectorizer.delete_repo_branch(repo_name, branch): the rows that
\* satisfy the condition are deleted.  When open_table or table.delete
\* raises (no table, a store error, a condition that does not parse) the
\* except clause prints the error and the table stays as it was.  The call
\* is another call on the vectorizer: the locals of the last
\* vectorize_repository call and its return are gone.
DeleteRepoBranch(repo_name, branch) ==
    /\ pc = "idle"
    /\ variant = "embedded"
    /\ LET condition == delete_condition(repo_name, branch)
           parses == sql_where(condition, [repo_name |-> "", branch |-> ""]).ok
           call == [NoDeletion EXCEPT !.called = TRUE, !.repo_name = repo_name,
                                      !.branch = branch]
       IN  \/ /\ table.exists
              /\ parses
              /\ table' = [table EXCEPT !.rows =
                             SelectSeq(@, LAMBDA r : ~sql_where(condition, r).value)]
              /\ deletion' = call
           \/ /\ table' = table
              /\ deletion' = [call EXCEPT !.raised = TRUE]
    /\ all_chunks' = <<>>
    /\ all_embeddings' = <<>>
    /\ embed_calls' = <<>>
    /\ outcome' = "none"
    /\ UNCHANGED <<variant, nvars, tvars, now, xvars, qvars, requested, failed, diff,
                   repo, collections, onDuplicate, pc, todo, results, ins, started,
                   aborted, indexed>>

\* The paths of the files that differ between two working trees: what
\* repo.git.diff(base..compare, name_only=True) lists.
FileAt(files, path) == {files[k] : k \in {j \in DOMAIN files : files[j].path = path}}

changed_files(base_branch, compare_branch) ==
    LET base == WorkTrees[repo[base_branch].tree]
        compare == WorkTrees[repo[compare_branch].tree]
        paths == {base[k].path : k \in DOMAIN base}
                 \cup {compare[k].path : k \in DOMAIN compare}
    IN  {Str(path) : path \in {q \in paths : FileAt(base, q) # FileAt(compare, q)}}

\* collection.get(where={"file_path": {"$in": changed_files}})['ids']
chunks_of_files(collection, files) ==
    SelectSeq(collection.records, LAMBDA r : r.file_path \in files)

\* GitVectorizer.get_branch_diff_vectors(repo_path, base_branch,
\* compare_branch): when get_collection raises for either branch the except
\* clause returns the error alone.
GetBranchDiffVectors(base_branch, compare_branch) ==
    /\ pc = "idle"
    /\ variant = "server"
    /\ LET base_collection_name == collection_name(RepoName, base_branch)
           compare_collection_name == collection_name(RepoName, compare_branch)
           files == changed_files(base_branch, compare_branch)
       IN  diff' =
             IF /\ collections[base_collection_name].exists
                /\ collections[compare_collection_name].exists
             THEN [called |-> TRUE,
                   base |-> base_branch,
                   compare |-> compare_branch,
                   changed_files |-> files,
                   base_chunks |->
                       Len(chunks_of_files(collections[base_collection_name], files)),
                   compare_chunks |->
                       Len(chunks_of_files(collections[compare_collection_name], files)),
                   base_collection |-> base_collection_name,
                   compare_collection |-> compare_collection_name]
             ELSE [called |-> TRUE, base |-> base_branch, compare |-> compare_branch,
                   error |-> "get_collection"]
    /\ UNCHANGED <<variant, ovars, now, xvars, qvars, svars, hvars>>

Next ==
    \/ \E b \in Branches : \E w \in DOMAIN WorkTrees : Commit(b, w)
    \/ \E base, compare \in Branches : GetBranchDiffVectors(base, compare)
    \/ \E branches \in BranchLists : VectorizeRepository(branches)
    \/ CheckoutFails
    \/ GetCollectionFails
    \/ ProcessBranchServer
    \/ InsertBatch
    \/ InsertFails
    \/ Cancel
    \/ ProcessBranchEmbedded
    \/ LoopDone
    \/ EmbedBatch
    \/ EmbedFails
    \/ WriteTable
    \/ WriteTableFails
    \/ \E r \in DeleteRepoNames : \E b \in DeleteBranches : DeleteRepoBranch(r, b)

Spec == Init /\ [][Next]_vars

---------------------------------------------------------------------------
(* search_similar_code: specification SpecSearch.                          *)

\* Records of the store a search runs against.
MaxStored == 2
\* The largest limit a search is given.
MaxLimit == 2
\* Distances are multiples of 1/DistanceScale.
DistanceScale == 4

\* A second repository indexed into the same store.
LibName == <<"lib">>

\* The repository+branch pairs that were indexed.
IndexedBranches == <<<<LibName, <<"main">>>>, <<RepoName, <<"dev">>>>, <<RepoName, <<"main">>>>>>

SearchCollectionNames ==
    {collection_name(IndexedBranches[k][1], IndexedBranches[k][2]) :
        k \in DOMAIN IndexedBranches}

\* The contents of the stored chunks; the query is one of them.
SearchTexts == <<"def f", "def g", "x = 1">>

\* Language and chunk type of the stored chunks.
SearchKinds ==
    << [language |-> "python", chunk_type |-> "function", file_path |-> "a.py"],
       [language |-> "python", chunk_type |-> "class", file_path |-> "a.py"],
       [language |-> "go", chunk_type |-> "text_block", file_path |-> "lib.go"] >>

\* The chunk the indexer makes of text t, kind k, in repository+branch b.
IndexedChunk(b, t, k) ==
    CodeChunk(ExtractArgs(Str(IndexedBranches[b][1]), Str(IndexedBranches[b][2]),
                          SearchKinds[k].file_path, 1),
              PointStr([row |-> t, column |-> 4 * (k - 1)]),
              SearchTexts[t], t, t, SearchKinds[k].chunk_type,
              SearchKinds[k].language, <<>>, <<>>)

\* Every chunk a store can hold, numbered.
PoolSize == Len(IndexedBranches) * Len(SearchTexts) * Len(SearchKinds)

\* The repository+branch of chunk number i.
PoolBranch(i) ==
    IndexedBranches[((i - 1) \div (Len(SearchTexts) * Len(SearchKinds))) + 1]

Pool ==
    [i \in 1..PoolSize |->
        IndexedChunk(((i - 1) \div (Len(SearchTexts) * Len(SearchKinds))) + 1,
                     (((i - 1) \div Len(SearchKinds)) % Len(SearchTexts)) + 1,
                     ((i - 1) % Len(SearchKinds)) + 1)]

\* The distance the backend computes between two embeddings.
Distance(u, v) ==
    LET rank(x) == CHOOSE t \in DOMAIN SearchTexts : Embedding(SearchTexts[t]) = x
    IN  IF rank(u) >= rank(v) THEN rank(u) - rank(v) ELSE rank(v) - rank(u)

\* Scores are fractions num/den.
ScoreLess(a, b) == a.num * b.den < b.num * a.den

\* 1 - distance
score_server(distance) == [num |-> DistanceScale - distance, den |-> DistanceScale]

\* 1 / (1 + distance)
score_embedded(distance) == [num |-> DistanceScale, den |-> DistanceScale + distance]

\* The sequences of k distinct elements of S.
RECURSIVE Arrangements(_, _)
Arrangements(S, k) ==
    IF k = 0 THEN {<<>>}
    ELSE UNION {{<<x>> \o s : s \in Arrangements(S \ {x}, k - 1)} : x \in S}

\* The answers a nearest-neighbour query for n records may give on a set
\* of records: the nearest n in ascending distance, records at the same
\* distance in any order.
Nearest(records, query_vector, n) ==
    LET d(r) == Distance(query_vector, Embedding(r.content))
    IN  {s \in Arrangements(records, Min(n, Cardinality(records))) :
            /\ \A j \in 1..(Len(s) - 1) : d(s[j]) <= d(s[j + 1])
            /\ \A r \in records :
                   (\A j \in DOMAIN s : s[j] # r) =>
                       \A j \in DOMAIN s : d(s[j]) <= d(r)}

\* asdict(chunk) without 'content' and 'id': the metadata _insert_chunks
\* stores.
metadata_of(chunk) ==
    [file_path |-> chunk.file_path, start_line |-> chunk.start_line,
     end_line |-> chunk.end_line, chunk_type |-> chunk.chunk_type,
     language |-> chunk.language, repo_name |-> chunk.repo_name,
     branch |-> chunk.branch, commit_hash |-> chunk.commit_hash,
     created_at |-> chunk.created_at, symbols |-> chunk.symbols,
     dependencies |-> chunk.dependencies, docstring |-> chunk.docstring]

\* A where clause that keeps every record.
no_where_clause(req, record) == TRUE

\* GitVectorizer: the where clause built from language and chunk_type.
where_clause(req, record) ==
    /\ Given(req.language) => record.language = req.language
    /\ Given(req.chunk_type) => record.chunk_type = req.chunk_type

\* GitVectorizer: the collections to search.
target_collections(req, listing) ==
    IF Given(req.repo_name) /\ Given(req.branch)
    THEN <<collection_name(req.repo_name, req.branch)>>
    ELSE listing

\* GitVectorizer: the results formatted from the answer of one collection.
format_results(name, query, answer) ==
    [i \in DOMAIN answer |->
        [content |-> answer[i].content,
         score |-> score_server(Distance(Embedding(query), Embedding(answer[i].content))),
         metadata |-> metadata_of(answer[i]),
         collection |-> name]]

\* all_results left as the loop built it.
unsorted(all_results) == all_results

\* all_results.sort(key=score, reverse=True): stable, results of equal
\* score keep their order.
RECURSIVE sort_by_score(_)
sort_by_score(all_results) ==
    IF all_results = <<>> THEN <<>>
    ELSE LET best == CHOOSE i \in DOMAIN all_results :
                        /\ \A j \in DOMAIN all_results :
                               ~ScoreLess(all_results[i].score, all_results[j].score)
                        /\ \A j \in 1..(i - 1) :
                               ScoreLess(all_results[j].score, all_results[i].score)
         IN  <<all_results[best]>>
             \o sort_by_score([j \in 1..(Len(all_results) - 1) |->
                                 IF j < best THEN all_results[j] ELSE all_results[j + 1]])

\* seq[:limit]
Truncate(seq, limit) == SubSeq(seq, 1, Min(limit, Len(seq)))

\* The results of the collections of names, in that order, merged.
RECURSIVE merge_results(_, _, _)
merge_results(names, query, answers) ==
    IF names = <<>> THEN <<>>
    ELSE format_results(Head(names), query, answers[Head(names)])
         \o merge_results(Tail(names), query, answers)

\* LanceGitVectorizer: the filter string built from the four parameters.
filter_string(req, row) ==
    /\ Given(req.repo_name) => row.repo_name = Str(req.repo_name)
    /\ Given(req.branch) => row.branch = Str(req.branch)
    /\ Given(req.language) => row.language = req.language
    /\ Given(req.chunk_type) => row.chunk_type = req.chunk_type

\* LanceGitVectorizer: one formatted result.
formatted_result(row, query_vector) ==
    [content |-> row.content,
     score |-> score_embedded(Distance(query_vector, row.vector)),
     metadata |-> [file_path |-> row.file_path, branch |-> row.branch,
                   repo_name |-> row.repo_name, chunk_type |-> row.chunk_type,
                   language |-> row.language, symbols |-> row.symbols,
                   start_line |-> row.start_line, end_line |-> row.end_line,
                   docstring |-> IF row.docstring # "" THEN row.docstring ELSE None]]

Rows(seq) == {seq[k] : k \in DOMAIN seq}

\* The subsets of S of at most k elements.
RECURSIVE SubsetsUpTo(_, _)
SubsetsUpTo(S, k) ==
    IF k = 0 THEN {{}}
    ELSE LET smaller == SubsetsUpTo(S, k - 1)
         IN  smaller \cup {s \cup {x} : s \in smaller, x \in S}

\* The arguments of a search.
Requests ==
    [query : {SearchTexts[1]},
     repo_name : {None, RepoName, LibName},
     branch : {None, <<"main">>},
     language : {None, "python"},
     chunk_type : {None, "function"},
     limit : 1..MaxLimit]

\* The records of Pool with the numbers in chosen, in the store.
StoredIn(chosen, name) ==
    LET mine == {i \in chosen :
                    collection_name(PoolBranch(i)[1], PoolBranch(i)[2]) = name}
        order == SortedSeq(mine)
    IN  [k \in DOMAIN order |-> Pool[order[k]]]

InitSearch ==
    /\ variant \in Variants
    /\ onDuplicate = "ignore"
    /\ now = 0
    /\ src = [language |-> "python", decodable |-> TRUE, tree |-> <<RootNode>>,
              lines |-> <<"">>, repo_name |-> "my-project", branch |-> "main",
              file_path |-> "src/app.py"]
    /\ phase = "input"
    /\ run1 = <<>>
    /\ run2 = <<>>
    /\ repo = [b \in Branches |-> [commit |-> 1, tree |-> 1]]
    /\ pc = "idle"
    /\ todo = <<>>
    /\ results = [b \in Branches |-> NoEntry]
    /\ ins = NoInsert
    /\ all_chunks = <<>>
    /\ all_embeddings = <<>>
    /\ outcome = "none"
    /\ started = [b \in Branches |-> [count |-> 0, current |-> FALSE]]
    /\ aborted = NoAbort
    /\ indexed = [b \in Branches |-> 0]
    /\ requested = <<>>
    /\ failed = {}
    /\ embed_calls = <<>>
    /\ diff = NoDiff
    /\ OthersAtRest
    /\ found = NotSearched
    /\ query_errors = {}
    /\ request \in Requests
    /\ prefilter \in (IF variant = "embedded" THEN BOOLEAN ELSE {TRUE})
    /\ \E chosen \in SubsetsUpTo(1..PoolSize, MaxStored) :
        /\ IF variant = "server"
           THEN /\ collections =
                      [n \in SearchCollectionNames |->
                          [exists |-> StoredIn(chosen, n) # <<>>,
                           records |-> StoredIn(chosen, n)]]
                /\ table = NoTable
           ELSE /\ collections = [n \in SearchCollectionNames |-> NoCollection]
                /\ table =
                      [exists |-> chosen # {},
                       rows |-> [k \in 1..Cardinality(chosen) |->
                                    chunk_dict(Pool[SortedSeq(chosen)[k]],
                                               Embedding(Pool[SortedSeq(chosen)[k]].content))]]

\* GitVectorizer.search_similar_code.  list_collections gives the
\* collections in any order; a collection that cannot be opened is skipped,
\* and so is one whose query raises (at most one does): the except of the
\* loop prints the error and goes on.
SearchServer ==
    /\ variant = "server"
    /\ found = NotSearched
    /\ \E listing \in Arrangements({n \in SearchCollectionNames : collections[n].exists},
                                   Cardinality({n \in SearchCollectionNames :
                                                    collections[n].exists})) :
         LET names == target_collections(request, listing)
             reachable == SelectSeq(names, LAMBDA n :
                             n \in SearchCollectionNames /\ collections[n].exists)
             matching(n) == {r \in Rows(collections[n].records) : where_clause(request, r)}
         IN  \E broken \in {{}} \cup {{n} : n \in Rows(reachable)} :
               LET opened == SelectSeq(reachable, LAMBDA n : n \notin broken)
               IN  \E answers \in [Rows(opened) ->
                                     UNION {Nearest(matching(n), Embedding(request.query),
                                                    request.limit) : n \in Rows(opened)}] :
                      /\ \A n \in Rows(opened) :
                             answers[n] \in Nearest(matching(n), Embedding(request.query),
                                                    request.limit)
                      /\ found' = Truncate(sort_by_score(merge_results(opened,
                                                                       request.query,
                                                                       answers)),
                                           request.limit)
                      /\ query_errors' = broken
    /\ UNCHANGED <<variant, ovars, now, xvars, svars, hvars, request, prefilter, diff>>

\* LanceGitVectorizer.search_similar_code.  Without the table the call
\* returns [], and so it does when the query raises: the except prints the
\* error and returns [].
SearchEmbedded ==
    /\ variant = "embedded"
    /\ found = NotSearched
    /\ LET query_vector == generate_embeddings(<<request.query>>)[1]
           filters == Given(request.repo_name) \/ Given(request.branch)
                      \/ Given(request.language) \/ Given(request.chunk_type)
           all == Rows(table.rows)
           matching == {r \in all : filter_string(request, r)}
       IN  IF ~table.exists
           THEN found' = <<>> /\ query_errors' = {}
           ELSE \/ found' = <<>> /\ query_errors' = {"code_chunks"}
                \/ \E answer \in (IF filters /\ prefilter
                               THEN Nearest(matching, query_vector, request.limit)
                               ELSE Nearest(all, query_vector, request.limit)) :
                   /\ query_errors' = {}
                   /\ found' =
                       LET kept == IF filters
                                   THEN SelectSeq(answer, LAMBDA r : filter_string(request, r))
                                   ELSE answer
                       IN  [k \in DOMAIN kept |-> formatted_result(kept[k], query_vector)]
    /\ UNCHANGED <<variant, ovars, now, xvars, svars, hvars, request, prefilter, diff>>

NextSearch == SearchServer \/ SearchEmbedded

SpecSearch == InitSearch /\ [][NextSearch]_vars

---------------------------------------------------------------------------
(* _should_ignore_file and the collection key on one input: specification  *)
(* SpecNames.                                                              *)

\* Pieces of a path relative to the repository root.
MaxPieces == 4

\* What the pieces are: the separator, the dot, and words that are, or are
\* part of, the names the ignore patterns mention.
PathPieces == {"/", ".", "src", "build", "re", "git", "hub", "log", "pyc", "py", "a"}

\* The relative paths rglob('*') can list: no empty segment.
RelativePaths ==
    {p \in UNION {[1..n -> PathPieces] : n \in 1..MaxPieces} :
        /\ p[1] # "/"
        /\ p[Len(p)] # "/"
        /\ \A k \in 1..(Len(p) - 1) : ~(p[k] = "/" /\ p[k + 1] = "/")}

\* Repository names and branch names, as the pieces '-', '.' and '_'
\* separate.
KeyRepoNames ==
    {RepoName, <<"my", "_", "project">>, <<"my", ".", "project">>, <<"my">>, <<"lib">>}

KeyBranches ==
    {<<"main">>, <<"dev">>, <<"project", "_", "main">>, <<"v1", ".", "0">>,
     <<"v1", "-", "0">>}

KeyPairs == {<<r, b>> : r \in KeyRepoNames, b \in KeyBranches}

\* No file is extracted in the runs of the naming functions.
FileAtRest ==
    /\ src = [language |-> "python", decodable |-> TRUE, tree |-> <<RootNode>>,
              lines |-> <<"">>, repo_name |-> "my-project", branch |-> "main",
              file_path |-> "src/app.py"]
    /\ phase = "input"
    /\ run1 = <<>>
    /\ run2 = <<>>

InitNames ==
    /\ variant \in Variants
    /\ onDuplicate = "ignore"
    /\ now = 0
    /\ FileAtRest
    /\ StoreAtRest
    /\ SearchAtRest
    /\ DriverAtRest
    /\ deletion = NoDeletion
    /\ derived = NotDerived
    /\ \/ \E p \in RelativePaths : subject = [kind |-> "path", path |-> p]
       \/ /\ variant = "server"
          /\ \E a, b \in KeyPairs : subject = [kind |-> "keys", a |-> a, b |-> b]

\* _should_ignore_file(file_path) on a path of the walk.
ShouldIgnoreFile ==
    /\ subject.kind = "path"
    /\ derived = NotDerived
    /\ derived' = [ignored |-> should_ignore_file(variant, RepoRoot \o <<"/">> \o subject.path)]
    /\ UNCHANGED <<variant, now, xvars, svars, hvars, qvars, diff, subject, tvars, deletion>>

\* GitVectorizer: the collection names _process_branch and
\* search_similar_code build of two repository+branch pairs.
CollectionKeys ==
    /\ subject.kind = "keys"
    /\ derived = NotDerived
    /\ derived' = [key_a |-> collection_name(subject.a[1], subject.a[2]),
                   key_b |-> collection_name(subject.b[1], subject.b[2])]
    /\ UNCHANGED <<variant, now, xvars, svars, hvars, qvars, diff, subject, tvars, deletion>>

NextNames == ShouldIgnoreFile \/ CollectionKeys

SpecNames == InitNames /\ [][NextNames]_vars

---------------------------------------------------------------------------
(* scripts/test_indexing.py: specification SpecDriver.                     *)

\* poll_job_until_complete(job_id, max_wait_seconds=60, poll_interval=3)
max_wait_seconds == 60
poll_interval == 3
\* The queries of run_search_tests.
positive_tests == 6
negative_tests == 4

\* Seconds a curl call takes.
CurlSeconds == {0, 1}

\* Words of hexadecimal digits, by length.
HexWords(n) ==
    CASE n = 8 -> {"01234567", "ABCDEF01"}
      [] n = 4 -> {"89ab", "cdef", "0123"}
      [] n = 12 -> {"456789abcdef"}
      [] OTHER -> {}

\* str(uuid.uuid4())
SomeUuid == <<"01234567", "-", "89ab", "-", "cdef", "-", "0123", "-", "456789abcdef">>

\* The values of TEST_TENANT_ID: a UUID, one in capitals, one followed by a
\* newline, one cut short, one with a word that is not hexadecimal, and
\* two strings that are nothing like it.
TenantIds ==
    {SomeUuid,
     [SomeUuid EXCEPT ![1] = "ABCDEF01"],
     SomeUuid \o <<"\n">>,
     SubSeq(SomeUuid, 1, 7),
     [SomeUuid EXCEPT ![3] = "wxyz"],
     <<"tenant">>,
     <<"x", "'", " OR ", "'", "1", "'", "=", "'", "1">>}

\* uuid_pattern.match(value) for r'^[0-9a-f]{8}-[0-9a-f]{4}-[0-9a-f]{4}-
\* [0-9a-f]{4}-[0-9a-f]{12}$' with re.IGNORECASE: '$' matches at the end of
\* the string and before a newline that ends the string.
validate_uuid(value) ==
    LET matched == IF Len(value) = 10 /\ value[10] = "\n" THEN SubSeq(value, 1, 9)
                   ELSE value
    IN  /\ Len(matched) = 9
        /\ matched[1] \in HexWords(8)
        /\ \A k \in {3, 5, 7} : matched[k] \in HexWords(4)
        /\ matched[9] \in HexWords(12)
        /\ \A k \in {2, 4, 6, 8} : matched[k] = "-"

\* value.replace("'", "''")
escape_sql_string(value) == Replace(value, "'", "''")

\* The two queries of ensure_tenant_exists.
check_query(tenant_id) ==
    "SELECT tenant_id FROM tenants WHERE tenant_id = '" \o Str(tenant_id) \o "';"

create_query(tenant_id, tenant_name) ==
    "INSERT INTO tenants (tenant_id, name) VALUES ('" \o Str(tenant_id) \o "', '"
    \o Str(escape_sql_string(tenant_name)) \o "') RETURNING tenant_id, name;"

InitDriver ==
    /\ variant = "server"
    /\ onDuplicate = "ignore"
    /\ now = 0
    /\ FileAtRest
    /\ StoreAtRest
    /\ SearchAtRest
    /\ deletion = NoDeletion
    /\ subject = NoSubject
    /\ derived = NotDerived
    /\ dpc = "start"
    /\ setup \in [run : {TRUE}, files : 0..1, tenant_id : TenantIds]
    /\ ensured = "not called"
    /\ db_commands = <<>>
    /\ sent = <<>>
    /\ job_status = "none"
    /\ elapsed = 0
    /\ exit_code = NoEntry

DriverFrame == UNCHANGED <<variant, now, xvars, svars, hvars, qvars, diff, nvars, deletion>>

\* main() up to the call of ensure_tenant_exists: without files it exits.
CollectFiles ==
    /\ setup.run
    /\ dpc = "start"
    /\ IF setup.files = 0
       THEN dpc' = "done" /\ exit_code' = 1
       ELSE dpc' = "tenant" /\ UNCHANGED exit_code
    /\ UNCHANGED <<setup, ensured, db_commands, sent, job_status, elapsed>>
    /\ DriverFrame

\* ensure_tenant_exists(tenant_id, f"test-tenant-{tenant_id[:8]}") and the
\* exit of main() when it returns False.  The database answers as it will.
EnsureTenantExists ==
    /\ dpc = "tenant"
    /\ LET tenant_id == setup.tenant_id
           tenant_name == <<"test-tenant-", Head(tenant_id)>>
       IN  IF ~validate_uuid(tenant_id)
           THEN /\ ensured' = "false"
                /\ UNCHANGED db_commands
           ELSE \E found_in_stdout, created \in BOOLEAN :
                   IF found_in_stdout
                   THEN /\ db_commands' = Append(db_commands, check_query(tenant_id))
                        /\ ensured' = "true"
                   ELSE /\ db_commands' = db_commands
                                          \o <<check_query(tenant_id),
                                               create_query(tenant_id, tenant_name)>>
                        /\ ensured' = IF created THEN "true" ELSE "false"
    /\ IF ensured' = "true"
       THEN dpc' = "index" /\ UNCHANGED exit_code
       ELSE dpc' = "done" /\ exit_code' = 1
    /\ UNCHANGED <<setup, sent, job_status, elapsed>>
    /\ DriverFrame

\* send_index_request(payload) and what main() makes of the response.
SendIndexRequest ==
    /\ dpc = "index"
    /\ sent' = Append(sent, "index")
    /\ \E response \in {"job_id", "no job_id", "not 2xx", "not JSON"} :
          CASE response = "job_id" -> dpc' = "poll" /\ UNCHANGED exit_code
            [] response = "no job_id" -> dpc' = "done" /\ exit_code' = 0
            [] OTHER -> dpc' = "done" /\ exit_code' = 1
    /\ UNCHANGED <<setup, ensured, db_commands, job_status, elapsed>>
    /\ DriverFrame

\* One round of the loop of poll_job_until_complete: 'completed' returns
\* the status, 'failed' returns None and main() exits; anything else sleeps.
PollJob ==
    /\ dpc = "poll"
    /\ elapsed < max_wait_seconds
    /\ sent' = Append(sent, "poll")
    /\ \E status \in {"completed", "failed", "running", "not JSON"} :
          /\ job_status' = status
          /\ CASE status = "completed" ->
                    dpc' = "search" /\ UNCHANGED <<exit_code, elapsed>>
               [] status = "failed" ->
                    dpc' = "done" /\ exit_code' = 1 /\ UNCHANGED elapsed
               [] OTHER ->
                    /\ \E curl \in CurlSeconds : elapsed' = elapsed + curl + poll_interval
                    /\ UNCHANGED <<dpc, exit_code>>
    /\ UNCHANGED <<setup, ensured, db_commands>>
    /\ DriverFrame

\* The loop of poll_job_until_complete runs out of time: it returns None
\* and main() exits.
PollTimeout ==
    /\ dpc = "poll"
    /\ elapsed >= max_wait_seconds
    /\ dpc' = "done"
    /\ exit_code' = 1
    /\ UNCHANGED <<setup, ensured, db_commands, sent, job_status, elapsed>>
    /\ DriverFrame

\* One search_semantic call of run_search_tests; after the last one main()
\* returns.
SearchSemantic ==
    /\ dpc = "search"
    /\ sent' = Append(sent, "search")
    /\ IF Cardinality({k \in DOMAIN sent' : sent'[k] = "search"})
            = positive_tests + negative_tests
       THEN dpc' = "done" /\ exit_code' = 0
       ELSE UNCHANGED <<dpc, exit_code>>
    /\ UNCHANGED <<setup, ensured, db_commands, job_status, elapsed>>
    /\ DriverFrame

NextDriver ==
    \/ CollectFiles
    \/ EnsureTenantExists
    \/ SendIndexRequest
    \/ PollJob
    \/ PollTimeout
    \/ SearchSemantic

SpecDriver == InitDriver /\ [][NextDriver]_vars

---------------------------------------------------------------------------
(* Claims about indexing and the store.                                    *)

NoDuplicateIds(records) ==
    \A j, k \in DOMAIN records : j # k => records[j].id # records[k].id

\* C1: the store never holds two records with the same chunk id.
C1_UpsertById ==
    /\ \A n \in CollectionNames : NoDuplicateIds(collections[n].records)
    /\ NoDuplicateIds(table.rows)

\* C2: a call that returned left the record count of every branch it was
\* given unchanged, if the branch's stored records already carried the
\* branch's commit when the call started.
C2_CurrentIsNoOp ==
    (pc = "idle" /\ outcome = "returned") =>
        \A b \in Branches :
            (results[b] # NoEntry /\ started[b].current) =>
                Len(StoredRecords(b)) = started[b].count

\* C3: the currency check is true exactly when the collection exists and
\* some stored record carries the commit hash.
C3_CurrencyCheck ==
    \A n \in CollectionNames : \A c \in 1..MaxCommits :
        (collections[n].exists /\ is_branch_current(collections[n], c))
        <=> (/\ collections[n].exists
             /\ \E k \in DOMAIN collections[n].records :
                    collections[n].records[k].commit_hash = c)

\* C4: when _insert_chunks failed or was cancelled after some batches, the
\* collection holds what it held before the run and is not reported current
\* for the run's commit.
C4_NoPartialPublish ==
    aborted.happened =>
        /\ collections[aborted.name].records = aborted.before.records
        /\ ~is_branch_current(collections[aborted.name], aborted.commit)

\* C5: once _process_branch has inserted the chunks of commit c, every
\* record of the branch's collection carries commit c.
C5_OwnsLastIndexed ==
    \A b \in Branches :
        indexed[b] # 0 =>
            \A k \in DOMAIN collections[collection_name(RepoName, b)].records :
                collections[collection_name(RepoName, b)].records[k].commit_hash
                    = indexed[b]

---------------------------------------------------------------------------
(* Claims about the extractors.                                            *)

IdSet(chunks) == {chunks[k].id : k \in DOMAIN chunks}

IsPythonRun == phase # "input" /\ src.decodable /\ src.language = "python"

IsFallbackRun ==
    /\ phase # "input"
    /\ src.decodable
    /\ IF variant = "server" THEN src.language \notin ServerParsers
       ELSE src.language # "python"

\* C6: extracting the same file twice, at different times and commits,
\* yields the same set of chunk ids.
C6_Determinism == phase = "twice" => IdSet(run1) = IdSet(run2)

\* C6 witness: a file with several chunks was extracted twice, at another
\* commit and another time, so the chunk records differ while the ids agree.
C6_Witness ==
    /\ phase = "twice"
    /\ Len(run1) >= 2
    /\ run1[1].created_at # run2[1].created_at
    /\ run1[1].commit_hash # run2[1].commit_hash

\* The lines the chunks' ranges cover, and whether the ranges follow one
\* another without gap or overlap from line 1 to the last line.
RECURSIVE RangesTile(_, _, _)
RangesTile(chunks, from, total) ==
    IF chunks = <<>> THEN from = total + 1
    ELSE /\ Head(chunks).start_line = from
         /\ Head(chunks).end_line >= from
         /\ RangesTile(Tail(chunks), Head(chunks).end_line + 1, total)

\* C7: the text_block chunks of the fallback extractor tile [1, total_lines].
C7_FallbackCoverage == IsFallbackRun => RangesTile(run1, 1, Len(src.lines))

---------------------------------------------------------------------------

DefNodes(tree) == {i \in DOMAIN tree : tree[i].type \in DefTypes}

\* The import statements of the file: the three statement types of the
\* Python grammar.
ImportNodes(tree) == {i \in DOMAIN tree : IsImportNode(tree[i])}

RECURSIVE JoinDots(_)
JoinDots(names) ==
    IF Len(names) = 1 THEN names[1]
    ELSE names[1] \o "." \o JoinDots(Tail(names))

\* The name of definition i prefixed by the names of the definitions that
\* enclose it, outermost first, read off the parent links.
QualifiedName(tree, i) ==
    LET chain == SortedSeq({j \in AncestorsOrSelf(tree, i) : tree[j].type \in DefTypes})
    IN  JoinDots([k \in DOMAIN chain |-> symbol_name(tree[chain[k]])])

StructuralChunks(chunks) == SelectSeq(chunks, LAMBDA c : c.chunk_type \in {"function", "class"})
ImportsChunks(chunks) == SelectSeq(chunks, LAMBDA c : c.chunk_type = "imports")

\* The chunk emitted for definition node i: the one whose id is made of the
\* node's start point.
ChunksOfNode(chunks, tree, i) ==
    SelectSeq(chunks, LAMBDA c :
        c.id = chunk_id(src.repo_name, src.branch, src.file_path,
                        PointStr(start_point(tree, i))))

C9_ImportsIsolation ==
    IsPythonRun =>
        LET N == Cardinality(ImportNodes(src.tree))
            M == Cardinality(DefNodes(src.tree))
            order == SortedSeq(ImportNodes(src.tree))
        IN  /\ Len(ImportsChunks(run1)) = (IF N > 0 THEN 1 ELSE 0)
            /\ Len(run1) = M + (IF N > 0 THEN 1 ELSE 0)
            /\ N > 0 =>
                 ImportsChunks(run1)[1].dependencies
                    = [k \in 1..N |-> extract_node_content(src.tree, order[k])]

\* C10: an imports chunk has no symbols and some dependencies; a function
\* or class chunk has one symbol and no dependencies.
C10_ChunkKind ==
    IsPythonRun =>
        \A k \in DOMAIN run1 :
            /\ run1[k].chunk_type = "imports" =>
                  run1[k].symbols = <<>> /\ run1[k].dependencies # <<>>
            /\ run1[k].chunk_type \in {"function", "class"} =>
                  Len(run1[k].symbols) = 1 /\ run1[k].dependencies = <<>>

---------------------------------------------------------------------------
(* Claims about search_similar_code.                                       *)

Searched == found # NotSearched

\* The records of the store, of every collection or of the table.
StoreRecords ==
    IF variant = "server"
    THEN UNION {Rows(collections[n].records) : n \in DOMAIN collections}
    ELSE Rows(table.rows)

\* What tells a stored record, and the record a result was made of.
RecordKey(r) == <<r.repo_name, r.branch, r.file_path, r.start_line, r.chunk_type>>
ResultKey(f) == RecordKey(f.metadata)

\* The stored records that satisfy the four filters of the request.
MatchingRecords ==
    {r \in StoreRecords :
        /\ Given(request.repo_name) => r.repo_name = Str(request.repo_name)
        /\ Given(request.branch) => r.branch = Str(request.branch)
        /\ Given(request.language) => r.language = request.language
        /\ Given(request.chunk_type) => r.chunk_type = request.chunk_type}

QueryDistance(r) == Distance(Embedding(request.query), Embedding(r.content))

C12_FilterRepoBranch ==
    Searched =>
        \A k \in DOMAIN found :
            /\ Given(request.repo_name) =>
                   found[k].metadata.repo_name = Str(request.repo_name)
            /\ Given(request.branch) => found[k].metadata.branch = Str(request.branch)

\* C13: a search returns at most limit results, in non-increasing order of
\* score, the score being the variant's transform of the distance, which
\* decreases as the distance grows.
C13_OutputShape ==
    LET transform(d) == IF variant = "server" THEN score_server(d) ELSE score_embedded(d)
    IN  /\ \A d \in 0..(Len(SearchTexts) - 2) :
               ScoreLess(transform(d + 1), transform(d))
        /\ Searched =>
               /\ Len(found) <= request.limit
               /\ \A k \in DOMAIN found :
                      found[k].score = transform(QueryDistance([content |-> found[k].content]))
               /\ \A k \in 1..(Len(found) - 1) :
                      ~ScoreLess(found[k].score, found[k + 1].score)

\* C13 witness: several results of different scores were returned, and a
\* record was left out by the limit.
C13_Witness ==
    /\ Searched
    /\ Len(found) = 2
    /\ ScoreLess(found[2].score, found[1].score)

\* C13 witness of the merge: results of two collections, and the limit cut
\* the merged sequence.
C13_WitnessMerge ==
    /\ Searched
    /\ variant = "server"
    /\ Len(found) = 1
    /\ \E r \in MatchingRecords :
          /\ RecordKey(r) # ResultKey(found[1])
          /\ r.branch # found[1].metadata.branch
          /\ QueryDistance(r) > QueryDistance([content |-> found[1].content])

\* C14: a search returns the limit nearest records among the stored
\* records that match the filters; a stored record whose content is the
\* query is returned first, with the largest score of the transform.
C14_GlobalTopK ==
    Searched =>
        /\ Len(found) = Min(request.limit, Cardinality(MatchingRecords))
        /\ \A k \in DOMAIN found :
               \E r \in MatchingRecords : RecordKey(r) = ResultKey(found[k])
        /\ \A r \in MatchingRecords :
               (\A k \in DOMAIN found : ResultKey(found[k]) # RecordKey(r)) =>
                   \A k \in DOMAIN found :
                       QueryDistance([content |-> found[k].content]) <= QueryDistance(r)
        /\ (\E r \in MatchingRecords : r.content = request.query) =>
               /\ found[1].content = request.query
               /\ found[1].score.num = found[1].score.den

\* The number of a result's record in Pool: the collections in the order
\* of their names, and in a collection the records in the order of their
\* ids.
PoolIndex(f) == CHOOSE i \in DOMAIN Pool : RecordKey(Pool[i]) = ResultKey(f)

\* C15: results of equal score are in the order of their collections and
\* then of their record ids, and the limit cuts the tied results in that
\* order.
C15_TieBreaking ==
    Searched =>
        /\ \A k \in 1..(Len(found) - 1) :
               found[k].score = found[k + 1].score =>
                   PoolIndex(found[k]) < PoolIndex(found[k + 1])
        /\ \A r \in MatchingRecords : \A k \in DOMAIN found :
               (/\ \A j \in DOMAIN found : ResultKey(found[j]) # RecordKey(r)
                /\ QueryDistance(r) = QueryDistance([content |-> found[k].content]))
               => PoolIndex(found[k]) < PoolIndex([metadata |-> r])

---------------------------------------------------------------------------
(* Claims about the embedding batcher, error isolation and the branch      *)
(* diff.                                                                   *)

Contents(chunks) == [k \in DOMAIN chunks |-> chunks[k].content]

\* The k-th of the consecutive batches of at most batch_size chunks.
BatchOf(chunks, k) ==
    SubSeq(chunks, (k - 1) * batch_size + 1, Min(k * batch_size, Len(chunks)))

BatchCount(chunks) == (Len(chunks) + batch_size - 1) \div batch_size

\* C16: the embedding calls of _store_chunks are given the consecutive
\* batches of at most batch_size chunks, one call per batch, each chunk in
\* one batch, and every row written carries the embedding of its own
\* content.
C16_EmbeddingBatcher ==
    variant = "embedded" =>
        /\ Len(embed_calls) <= BatchCount(all_chunks)
        /\ \A k \in DOMAIN embed_calls :
               /\ embed_calls[k].texts = Contents(BatchOf(all_chunks, k))
               /\ Len(embed_calls[k].texts) \in 1..batch_size
        /\ pc = "storing" =>
               /\ Len(embed_calls) = BatchCount(all_chunks)
               /\ Len(all_embeddings) = Len(all_chunks)
        /\ (pc = "idle" /\ outcome = "returned" /\ all_chunks # <<>>) =>
               /\ Len(table.rows) >= Len(all_chunks)
               /\ \A k \in DOMAIN all_chunks :
                      LET row == table.rows[Len(table.rows) - Len(all_chunks) + k]
                      IN  /\ row.id = all_chunks[k].id
                          /\ row.content = all_chunks[k].content
                          /\ row.vector = Embedding(all_chunks[k].content)
        /\ \A k \in DOMAIN table.rows :
               table.rows[k].vector = Embedding(table.rows[k].content)

\* C16 witness: a run stored the chunks of several batches, one of them of
\* chunks with different contents.
C16_Witness ==
    /\ variant = "embedded"
    /\ pc = "idle"
    /\ outcome = "returned"
    /\ Len(embed_calls) >= 2
    /\ \E k \in DOMAIN embed_calls :
          /\ Len(embed_calls[k].texts) = 2
          /\ embed_calls[k].texts[1] # embed_calls[k].texts[2]

\* C17: when the embedding of one batch failed, the chunks of the other
\* batches are stored.
C17_BatchFailureIsolation ==
    (/\ variant = "embedded"
     /\ pc = "idle"
     /\ embed_calls # <<>>
     /\ ~embed_calls[Len(embed_calls)].ok) =>
        \A k \in DOMAIN all_chunks :
            (k - 1) \div batch_size + 1 # Len(embed_calls) =>
                \E j \in DOMAIN table.rows :
                    /\ table.rows[j].id = all_chunks[k].id
                    /\ table.rows[j].created_at = all_chunks[k].created_at

\* The chunks extracted of branch b by the call in progress.
ExtractedOf(b) ==
    IF variant = "server"
    THEN IF pc = "inserting" /\ ins.branch = b THEN ins.chunks ELSE <<>>
    ELSE SelectSeq(all_chunks, LAMBDA c : c.branch = Str(b))

\* Branch b was walked by the call in progress and its chunks are at hand.
Walked(b) ==
    IF variant = "server"
    THEN pc = "inserting" /\ ins.branch = b
    ELSE pc # "idle" /\ results[b] # NoEntry /\ b \notin failed

\* C18: the chunks of a walked branch hold no chunk of a file that cannot
\* be decoded or read, and every chunk of every other file of the branch
\* that is supported and not ignored.
C18_FileErrorIsolation ==
    \A b \in Branches :
        Walked(b) =>
            LET files == EligibleFiles(variant, WorkTrees[repo[b].tree])
            IN  \A k \in DOMAIN files :
                    IF ~files[k].decodable \/ files[k].raises
                    THEN \A j \in DOMAIN ExtractedOf(b) :
                             ExtractedOf(b)[j].file_path # Str(files[k].path)
                    ELSE \A c \in Rows(chunk_work_file(variant, files[k], b, repo[b].commit)) :
                             c \in Rows(ExtractedOf(b))

\* C18 witness: a branch with a binary and an unreadable file was walked,
\* and chunks of the files listed after them were extracted.
C18_Witness ==
    \E b \in Branches :
        /\ Walked(b)
        /\ repo[b].tree = 5
        /\ \E j \in DOMAIN ExtractedOf(b) : ExtractedOf(b)[j].file_path = "c.py"
        /\ \E j \in DOMAIN ExtractedOf(b) : ExtractedOf(b)[j].file_path = "d.go"

\* Branch b of the call in progress has been dealt with.
Processed(b) ==
    /\ pc # "idle"
    /\ b \in Rows(requested)
    /\ b \notin Rows(todo)

\* C19: the result map has an entry for exactly the requested branches
\* dealt with so far, all of them when the call returns; the entry of a
\* branch whose checkout or processing failed is 0, and the entry of any
\* other branch is the number of its chunks (of its stored records when
\* the branch was found up to date).
C19_BranchErrorIsolation ==
    /\ \A b \in Branches :
           /\ results[b] # NoEntry => b \in Rows(requested)
           /\ Processed(b) =>
                  /\ results[b] # NoEntry
                  /\ b \in failed => results[b] = 0
                  /\ b \notin failed =>
                         \/ results[b] = Len(branch_chunks(variant, b))
                         \/ /\ variant = "server"
                            /\ is_branch_current(collections[collection_name(RepoName, b)],
                                                 repo[b].commit)
                            /\ results[b] =
                                   Len(collections[collection_name(RepoName, b)].records)
    /\ (pc = "idle" /\ outcome = "returned") =>
           \A b \in Rows(requested) : results[b] # NoEntry

\* C19 witness: a call for two branches returned; one branch failed and
\* has 0, the other has the count of its chunks.
C19_Witness ==
    /\ pc = "idle"
    /\ outcome = "returned"
    /\ Len(requested) = 2
    /\ \E a, b \in Rows(requested) :
          /\ a \in failed
          /\ results[a] = 0
          /\ b \notin failed
          /\ results[b] > 0

\* C20: get_branch_diff_vectors returns the list of the files that differ
\* between the two branches, with zero counts when the collection of
\* either branch does not exist and the numbers of stored chunks of those
\* files otherwise.
C20_DiffMissingBaseline ==
    diff.called =>
        /\ "changed_files" \in DOMAIN diff
        /\ diff.changed_files = changed_files(diff.base, diff.compare)
        /\ LET base == collections[collection_name(RepoName, diff.base)]
               compare == collections[collection_name(RepoName, diff.compare)]
           IN  IF base.exists /\ compare.exists
               THEN /\ diff.base_chunks =
                           Len(chunks_of_files(base, diff.changed_files))
                    /\ diff.compare_chunks =
                           Len(chunks_of_files(compare, diff.changed_files))
               ELSE diff.base_chunks = 0 /\ diff.compare_chunks = 0

---------------------------------------------------------------------------
(* Claims about the ignore filter and the collection key.                  *)

\* path.parts: the pieces between the separators, each segment joined.
RECURSIVE Segments(_, _)
Segments(path, current) ==
    IF path = <<>> THEN {Str(current)}
    ELSE IF Head(path) = "/" THEN {Str(current)} \cup Segments(Tail(path), <<>>)
    ELSE Segments(Tail(path), Append(current, Head(path)))

\* The denylist read as names of files and directories, and as suffixes
\* (its members "*.ext").
DenyNames(v) == {Str(p) : p \in {q \in ignore_patterns(v) : Head(q) # "*"}}
DenySuffixes(v) == {Str(Tail(p)) : p \in {q \in ignore_patterns(v) : Head(q) = "*"}}

MatchesDenylist(v, path) ==
    \/ \E segment \in Segments(path, <<>>) : segment \in DenyNames(v)
    \/ Suffix(path) \in DenySuffixes(v)

\* C21: a path is ignored exactly when one of its segments, or its suffix,
\* equals a member of the denylist: a name that only contains a denylist
\* word is not ignored, a .log file is.
C21_IgnoreFilter ==
    (subject.kind = "path" /\ derived # NotDerived) =>
        (derived.ignored <=> MatchesDenylist(variant, subject.path))

\* C27: two different (repo_name, branch) pairs never get the same
\* collection name, so the chunks of two repository+branch pairs are never
\* kept in, checked against, or searched from one collection.
C27_KeyInjectivity ==
    (/\ subject.kind = "keys"
     /\ derived # NotDerived
     /\ <<Str(subject.a[1]), Str(subject.a[2])>> # <<Str(subject.b[1]), Str(subject.b[2])>>)
        => derived.key_a # derived.key_b

---------------------------------------------------------------------------
(* Claims about what the extractors return.                                *)

\* The file holds something: a statement (Python), or more than the one
\* empty line content.split('\n') makes of an empty file.
NonEmptyFile(file) ==
    IF file.language = "python" THEN Len(file.tree) > 1 ELSE file.lines # <<"">>

\* C22: the extraction of a decodable, non-empty file of a supported
\* extension returns at least one chunk.
C22_NoEmptyExtraction ==
    (phase # "input" /\ src.decodable /\ NonEmptyFile(src)) => run1 # <<>>

\* The first statement of the definition's body is a string literal.
StartsWithString(tree, i) ==
    /\ Children(tree, i) # <<>>
    /\ IsStringStatement(tree[Children(tree, i)[1]])

\* The literal without its quote delimiters.
LiteralText == StringLiteral[2]

\* C23: the chunk of a definition whose body starts with a string literal
\* has that literal, delimiters stripped, as its docstring; the chunk of any
\* other definition has no docstring (a file `def f(): pass` gives one
\* function chunk with symbols ["f"], no docstring and no dependencies).
C23_Docstring ==
    IsPythonRun =>
        /\ \A i \in DefNodes(src.tree) :
              \A k \in DOMAIN ChunksOfNode(run1, src.tree, i) :
                  ChunksOfNode(run1, src.tree, i)[k].docstring =
                      IF StartsWithString(src.tree, i) THEN LiteralText ELSE None
        /\ (/\ Len(src.tree) = 3
            /\ src.tree[2] = [type |-> "function_definition", name |-> "f", parent |-> 1]
            /\ src.tree[3] = [type |-> "block", name |-> NoName, parent |-> 2])
              => /\ Len(run1) = 1
                 /\ run1[1].chunk_type = "function"
                 /\ run1[1].symbols = <<"f">>
                 /\ run1[1].docstring = None
                 /\ run1[1].dependencies = <<>>

---------------------------------------------------------------------------
(* Claims about store errors, creation and deletion.                       *)

\* C24: a search in which a query of the store failed does not return what
\* a successful search without matches returns, the empty list.
C24_StoreErrorPropagation ==
    (Searched /\ query_errors # {}) => found # <<>>

IsPrefix(s, t) == Len(s) <= Len(t) /\ SubSeq(t, 1, Len(s)) = s

\* C25: no step of an indexing run destroys or replaces the records of a
\* collection, or of the chunk table, that exists: not the open, not the
\* create path taken after the open or the read of it raised.
C25_OpenOrCreateIdempotent ==
    [][pc # "idle" =>
          /\ \A n \in CollectionNames :
                 collections[n].exists =>
                     /\ collections'[n].exists
                     /\ IsPrefix(collections[n].records, collections'[n].records)
          /\ table.exists =>
                 /\ table'.exists
                 /\ IsPrefix(table.rows, table'.rows)]_vars

\* C25 witness: a run computed every embedding, the write on the table
\* that exists raised, the create path was taken, and the rows stored
\* before are still there.
C25_Witness ==
    /\ variant = "embedded"
    /\ pc = "idle"
    /\ outcome = "raised"
    /\ all_chunks # <<>>
    /\ Len(all_embeddings) = Len(all_chunks)
    /\ deletion = NoDeletion
    /\ table.exists
    /\ table.rows # <<>>

\* The rows delete_repo_branch(repo_name, branch) is to remove.
ToDelete(row, repo_name, branch) ==
    /\ row.repo_name = Str(repo_name)
    /\ branch # <<>> => row.branch = Str(branch)

\* C26: a delete_repo_branch call that succeeds removes the rows whose
\* repo_name and branch equal the arguments (every row of the repository
\* without branch) and no other row; one that fails leaves the table as it
\* was.
C26_DeleteByPredicate ==
    [][(deletion' # deletion /\ deletion'.called) =>
          table'.rows =
              IF deletion'.raised THEN table.rows
              ELSE SelectSeq(table.rows, LAMBDA r :
                      ~ToDelete(r, deletion'.repo_name, deletion'.branch))]_vars

---------------------------------------------------------------------------
(* Claims about line ranges and the embedded store.                        *)

\* The lines of the file: in the layout of the parse trees every node
\* below the root has a line of its own.
LineCount(file) ==
    IF file.language = "python" THEN Len(file.tree) - 1 ELSE Len(file.lines)

ValidRange(chunk, file) ==
    /\ 1 <= chunk.start_line
    /\ chunk.start_line <= chunk.end_line
    /\ chunk.end_line <= LineCount(file)

\* C28: every chunk of every extractor has
\* 1 <= start_line <= end_line <= number of lines of the file.
C28_LineRangeValidity ==
    (phase # "input" /\ src.decodable) =>
        \A k \in DOMAIN run1 : ValidRange(run1[k], src)

\* C29: in the embedded variant nothing is written while the branches are
\* walked and the batches embedded, so a run that ends in a failed
\* embedding call leaves the chunk table as it was when the run began; and
\* every row ever stored carries a vector.
C29_AllOrNothingStore ==
    /\ [](variant = "embedded" =>
             \A k \in DOMAIN table.rows :
                 /\ "vector" \in DOMAIN table.rows[k]
                 /\ table.rows[k].vector # None)
    /\ [][(variant = "embedded" /\ pc \in {"loop", "embedding"}) => table' = table]_vars

\* C29 witness: a run whose first batch was embedded failed on a later
\* batch, over a table an earlier run had filled.
C29_Witness ==
    /\ variant = "embedded"
    /\ pc = "idle"
    /\ outcome = "raised"
    /\ Len(embed_calls) >= 2
    /\ embed_calls[1].ok
    /\ ~embed_calls[Len(embed_calls)].ok
    /\ deletion = NoDeletion
    /\ table.exists
    /\ Len(table.rows) = started[<<"main">>].count + started[<<"dev">>].count
    /\ table.rows # <<>>

---------------------------------------------------------------------------
(* Claims about scripts/test_indexing.py.                                  *)

\* A UUID: five words of 8, 4, 4, 4 and 12 hexadecimal digits joined by
\* hyphens, and nothing else.
IsUuid(value) ==
    /\ Len(value) = 9
    /\ value[1] \in HexWords(8)
    /\ \A k \in {3, 5, 7} : value[k] \in HexWords(4)
    /\ value[9] \in HexWords(12)
    /\ \A k \in {2, 4, 6, 8} : value[k] = "-"

Sent(kind) == \E k \in DOMAIN sent : sent[k] = kind

\* C30: the index request is sent only after ensure_tenant_exists returned
\* true, and an invalid tenant UUID makes it return false without any
\* database command; the searches run only after a poll read 'completed';
\* after 'failed' or a timeout main exits with failure and no search.
C30_DriverOrdering ==
    setup.run =>
        /\ Sent("index") => ensured = "true"
        /\ (ensured # "not called" /\ ~IsUuid(setup.tenant_id)) =>
               ensured = "false" /\ db_commands = <<>>
        /\ Sent("search") => job_status = "completed"
        /\ (Sent("poll") /\ dpc = "done" /\ job_status # "completed") =>
               exit_code = 1 /\ ~Sent("search")

====
